---- MODULE Spec2Model ----
(***************************************************************************)
(* Model of the recurring "attendance mark" scheduler of the Discord bot   *)
(* (src/src/discord_bot/bot.py) and of the control operations the Telegram *)
(* controller (src/src/telegram_bot/bot.py) performs on it.                *)
(*                                                                         *)
(* Time.  An instant is a record [y, m, d, sec, us]: a calendar date, the  *)
(* second of the day, and us = 1 when the microsecond part of the reading  *)
(* is not zero (the code compares datetime.now(), which carries            *)
(* microseconds, with datetimes built with microsecond=0, so a reading     *)
(* "exactly on the second" and one "just after it" can take different      *)
(* branches).  The clock moves over the sampled instants of DayGrid; every *)
(* clock read inside one step of a task (code between two awaits) returns  *)
(* the same instant.                                                       *)
(***************************************************************************)
EXTENDS Integers, Sequences, FiniteSets, TLC

VARIABLES
    now,                \* the wall clock (Europe/Moscow)
    daysRun,            \* days elapsed since the program was constructed
    scheduler_running,  \* DiscordBot.scheduler_running
    was_sent_today,     \* DiscordBot._was_sent_today
    is_mark_enabled,    \* DiscordBot._is_mark_enabled
    wait_day,           \* DiscordBot._wait_until_target_day (0 = None)
    message,            \* DiscordBot._chat_channel_message
    next_target,        \* DiscordBot._next_target_time, second of the day
    locked,             \* DiscordBot._next_target_time_locked (NoSec = None)
    pc,                 \* where the message_scheduler task is suspended
    wake,               \* the instant the task's current sleep ends
    moscow_now,         \* message_scheduler's local moscow_now
    \* ---- history variables (observations, never read by the program)
    sendAt,             \* instant of the recurring send attempt made today
    sendsToday,         \* recurring send attempts made on the current date
    fired,              \* outcome of the send check of the current iteration
    entry,              \* what the first send check of the iteration found
    deferUntil,         \* first occurrence of the deferred day after it was set
    cleared,            \* "today"/"earlier": when the deferred day was last cleared
    clean,              \* no toggle, deferral or cancellation happened so far
    cancelled,          \* the task was cancelled
    armed,              \* the task was running when today's window was still open
    opsDone,            \* number of control operations performed
    sentText,           \* the text handed to the recurring send made today
    waitText,           \* _chat_channel_message when today's in-window wait began
    overridden,         \* a manual fire time later than the clock is pending
    result,             \* the value a pure function under check returned
    \* ---- delayed messages of the Telegram controller
    delayed_messages,   \* TelegramBotController.delayed_messages: id -> message
    delayed_tasks,      \* TelegramBotController.delayed_tasks: id -> task
    next_message_id,    \* TelegramBotController.next_message_id
    tasks,              \* the schedule_delayed_message tasks created so far
    channel,            \* what the Discord channel received from those tasks
    persisted,          \* the content of bot_data/delayed_messages.json
    files,              \* the files in bot_data/attachments
    flow,               \* the FSM data of the creation flow
    up,                 \* the process is running
    loaded,             \* observation: what the last start of the process loaded
    notifications,      \* observation: the send reports handed to the operator's chat
    download            \* the download process_adding_attachments is waiting for

vars == <<now, daysRun, scheduler_running, was_sent_today, is_mark_enabled,
          wait_day, message, next_target, locked, pc, wake, moscow_now,
          sendAt, sendsToday, fired, entry, deferUntil, cleared, clean,
          cancelled, armed, opsDone, sentText, waitText, overridden, result,
          delayed_messages, delayed_tasks, next_message_id, tasks, channel,
          persisted, files, flow, up, loaded, notifications, download>>

\* the observations of the text sent and of a pending manual fire time
obs == <<sentText, waitText, overridden>>

\* the delayed messages, their tasks and what the channel received
delayed == <<delayed_messages, delayed_tasks, next_message_id, tasks, channel,
             persisted, files, flow, up, loaded, notifications, download>>

\* what the scheduler task, the control operations and the clock leave alone
rest == <<result, delayed>>

----------------------------------------------------------------------------
\* Program constants (src/src/discord_bot/bot.py, lines 16-29)

SECONDS_IN_HOUR == 3600
SECONDS_IN_MINUTE == 60
SCHEDULER_RESTART_DELAY_SECONDS == 300
WORK_DAY_START_HOUR == 10
WORK_DAY_START_MINUTE == 30
WORK_DAY_END_HOUR == 12
WORK_DAY_END_MINUTE == 0
WORK_DAY_END_SECOND_SHIFT == 3

\* DiscordBot._start_time and _end_time as seconds of the day
StartTime == WORK_DAY_START_HOUR * SECONDS_IN_HOUR
                 + WORK_DAY_START_MINUTE * SECONDS_IN_MINUTE

EndTime == WORK_DAY_END_HOUR * SECONDS_IN_HOUR
               + WORK_DAY_END_MINUTE * SECONDS_IN_MINUTE

----------------------------------------------------------------------------
\* Bounds of the model

\* days the clock runs after construction
MaxDays == 3
\* control operations performed in one run
MaxOps == 2

\* the first day of a run: Friday 31 January 2025, so that a run crosses a
\* month end and a weekend, and day 31 is one that February does not have
StartDates == { [y |-> 2025, m |-> 1, d |-> 31] }

\* the instants of a day the clock is sampled at
DayGrid == << [sec |-> 32400, us |-> 0],
              [sec |-> StartTime, us |-> 0],
              [sec |-> StartTime, us |-> 1],
              [sec |-> StartTime + WORK_DAY_END_SECOND_SHIFT, us |-> 0],
              [sec |-> EndTime, us |-> 0],
              [sec |-> EndTime, us |-> 1] >>

\* the seconds of the day a random pick may return (random.randint is
\* sampled at the seconds of DayGrid)
SampleSecs == { DayGrid[i].sec : i \in DOMAIN DayGrid }

\* days of the month the operator defers to
WaitDays == {3, 31}
\* texts the operator sets for the recurring message
Texts == {"+", "here"}
\* times the operator passes to set_next_target_time_once
OverrideTimes == {StartTime, StartTime + WORK_DAY_END_SECOND_SHIFT, 46800}

----------------------------------------------------------------------------
\* Calendar (datetime / calendar of the standard library)

NoTime == [y |-> 0, m |-> 0, d |-> 0, sec |-> 0, us |-> 0]
NoSec == -1
NoText == ""
NoResult == [kind |-> "none"]

\* an empty dict
EmptyDict == [k \in {} |-> 0]

\* the controller as constructed with nothing persisted: no delayed message,
\* no task, ids start at 1
NoDelayedMessages ==
    /\ delayed_messages = EmptyDict
    /\ delayed_tasks = EmptyDict
    /\ next_message_id = 1
    /\ tasks = << >>
    /\ channel = << >>
    /\ persisted = [kind |-> "none", next_message_id |-> 0, messages |-> << >>]
    /\ files = {}
    /\ flow = [id |-> 0, date_time |-> NoTime, parts |-> 0,
               attachments |-> << >>]
    /\ up = TRUE
    /\ loaded = [kept |-> {}, dropped |-> {}, failed |-> FALSE]
    /\ notifications = {}
    /\ download = [id |-> 0, name |-> ""]

IsLeap(y) == (y % 4 = 0) /\ ((y % 100 # 0) \/ (y % 400 = 0))

\* calendar.monthrange(y, m)[1]
DaysInMonth(y, m) ==
    IF m = 2 THEN (IF IsLeap(y) THEN 29 ELSE 28)
    ELSE IF m \in {4, 6, 9, 11} THEN 30 ELSE 31

RECURSIVE DaysBeforeMonth(_, _)
DaysBeforeMonth(y, m) ==
    IF m = 1 THEN 0 ELSE DaysBeforeMonth(y, m - 1) + DaysInMonth(y, m - 1)

\* date.toordinal(): 1 for 0001-01-01
Ordinal(t) ==
    LET p == t.y - 1
    IN  p * 365 + (p \div 4) - (p \div 100) + (p \div 400)
          + DaysBeforeMonth(t.y, t.m) + t.d

\* date.weekday(): 0 = Monday ... 6 = Sunday
Weekday(t) == (Ordinal(t) + 6) % 7

\* t + timedelta(days=1)
AddDay(t) ==
    IF t.d < DaysInMonth(t.y, t.m) THEN [t EXCEPT !.d = t.d + 1]
    ELSE IF t.m < 12 THEN [t EXCEPT !.m = t.m + 1, !.d = 1]
    ELSE [t EXCEPT !.y = t.y + 1, !.m = 1, !.d = 1]

RECURSIVE AddDays(_, _)
AddDays(t, n) == IF n = 0 THEN t ELSE AddDays(AddDay(t), n - 1)

\* t + timedelta(seconds=s), for 0 <= s < 86400
AddSeconds(t, s) ==
    IF t.sec + s < 24 * SECONDS_IN_HOUR THEN [t EXCEPT !.sec = t.sec + s]
    ELSE [AddDay(t) EXCEPT !.sec = t.sec + s - 24 * SECONDS_IN_HOUR]

SameDate(a, b) == a.y = b.y /\ a.m = b.m /\ a.d = b.d

\* a < b on datetimes
Before(a, b) ==
    \/ a.y < b.y
    \/ a.y = b.y /\ a.m < b.m
    \/ a.y = b.y /\ a.m = b.m /\ a.d < b.d
    \/ SameDate(a, b) /\ a.sec < b.sec
    \/ SameDate(a, b) /\ a.sec = b.sec /\ a.us < b.us

AtOrBefore(a, b) == ~Before(b, a)

\* datetime.replace(hour, minute, second, microsecond=0) / datetime.combine
At(t, s) == [t EXCEPT !.sec = s, !.us = 0]

----------------------------------------------------------------------------
\* Pure helpers of DiscordBot

\* time(h, m, s) as the second of the day (lines 518-523)
SecondsOf(h, m, s) == h * SECONDS_IN_HOUR + m * SECONDS_IN_MINUTE + s

\* the time(hours, minutes, seconds) built from a second count (lines 534-538)
TimeOfSeconds(r) ==
    SecondsOf(r \div SECONDS_IN_HOUR,
              (r % SECONDS_IN_HOUR) \div SECONDS_IN_MINUTE,
              r % SECONDS_IN_MINUTE)

\* get_random_time_in_range: the set of times it can return; the empty set
\* when random.randint raises ValueError (empty range).  random.randint is
\* sampled at SampleSecs and at the upper end of its range.
GetRandomTimeInRange(start_seconds, end_seconds) ==
    IF start_seconds >= end_seconds
    THEN { TimeOfSeconds(end_seconds) }
    ELSE { TimeOfSeconds(r) : r \in
             { x \in SampleSecs \cup {end_seconds} :
                 /\ start_seconds + WORK_DAY_END_SECOND_SHIFT <= x
                 /\ x <= end_seconds } }

\* a pick that may return its floor: the guard offset of line 531 left out
InitializeWithoutShift(start_sec) == { start_sec, EndTime }

\* _initialize_next_target_time(start_datetime)
InitializeNextTargetTime(start_sec) == GetRandomTimeInRange(start_sec, EndTime)

\* start_datetime <= t <= end_datetime for the range of t's date
InWindow(t) ==
    /\ AtOrBefore(At(t, StartTime), t)
    /\ AtOrBefore(t, At(t, EndTime))

\* is_weekday
IsWeekday(t) == Weekday(t) < 5

\* t.time() > self._start_time
TimeAfterStart(t) == t.sec > StartTime \/ (t.sec = StartTime /\ t.us > 0)

\* the month after t's month, with the year rolled after December
NextMonth(t) ==
    IF t.m < 12 THEN [y |-> t.y, m |-> t.m + 1] ELSE [y |-> t.y + 1, m |-> 1]

\* datetime(year, month, day, ...): ValueError when the month has no such day
MakeDate(y, m, d) ==
    IF d >= 1 /\ d <= DaysInMonth(y, m)
    THEN [raised |-> FALSE,
          at |-> [y |-> y, m |-> m, d |-> d, sec |-> StartTime, us |-> 0]]
    ELSE [raised |-> TRUE, at |-> NoTime]

\* _calculate_wait_until_target_date(moscow_now) with _wait_until_target_day = D
CalculateWaitUntilTargetDate(D, t) ==
    LET this == [y |-> t.y, m |-> t.m]
        ym == IF D > t.d
              THEN (IF D <= DaysInMonth(t.y, t.m) THEN this ELSE NextMonth(t))
              ELSE IF D = t.d
              THEN (IF Before(t, At(t, StartTime)) THEN this ELSE NextMonth(t))
              ELSE NextMonth(t)
    IN  MakeDate(ym.y, ym.m, D)

\* wait_until_next_date without the roll to the next day (lines 619-620 left out)
WaitUntilNoRoll(next_datetime, current) == next_datetime

\* wait_until_next_date: the instant the sleep is due at
WaitUntil(next_datetime, current) ==
    IF Before(next_datetime, current) THEN AddDay(next_datetime)
    ELSE next_datetime

\* _wait_until_next_working_day: the instant it sleeps until
NextWorkingDayTarget(mnow, current) ==
    LET ok(k) == /\ IsWeekday(AddDays(mnow, k))
                 /\ ~(k = 0 /\ TimeAfterStart(mnow))
        ks == { k \in 0..7 : ok(k) }
    IN  IF ks = {} THEN current
        ELSE LET k == CHOOSE x \in ks : \A z \in ks : x <= z
             IN  WaitUntil(At(AddDays(mnow, k), StartTime), current)

\* an exception that escapes the loop: the task ends without a cooldown
ExceptionEndsTask(t) == [pc |-> "done", wake |-> t]

\* the except-Exception branch of message_scheduler: where the task goes
ExceptionHandler(t) ==
    [pc |-> "cooldown",
     wake |-> AddSeconds(t, SCHEDULER_RESTART_DELAY_SECONDS)]

\* a clock reading taken after an awaited send that began at t is later than t
AfterSend(t, began) == IF t = began THEN [t EXCEPT !.us = 1] ELSE t

----------------------------------------------------------------------------
\* History helpers

\* the first date after t whose day of the month is D, at window start
RECURSIVE FirstOccurrenceFrom(_, _, _)
FirstOccurrenceFrom(D, c, t) ==
    IF c.d = D /\ Before(t, At(c, StartTime)) THEN At(c, StartTime)
    ELSE FirstOccurrenceFrom(D, AddDay(c), t)

FirstOccurrence(D, t) == FirstOccurrenceFrom(D, t, t)

----------------------------------------------------------------------------
\* The state after construction (DiscordBot.__init__, lines 37-65): the first
\* fire time is picked from the current time when the constructor runs
\* inside the window, from window start otherwise.  A constructor whose
\* pick raises leaves no program to run.

ConstructorPicks(t) ==
    InitializeNextTargetTime(IF InWindow(t) THEN t.sec ELSE StartTime)

Init ==
    /\ \E sd \in StartDates : \E i \in DOMAIN DayGrid :
          now = [y |-> sd.y, m |-> sd.m, d |-> sd.d,
                 sec |-> DayGrid[i].sec, us |-> DayGrid[i].us]
    /\ next_target \in ConstructorPicks(now)
    /\ daysRun = 0
    /\ scheduler_running = FALSE
    /\ was_sent_today = FALSE
    /\ is_mark_enabled = TRUE
    /\ wait_day = 0
    /\ message = "+"
    /\ locked = NoSec
    /\ pc = "init"
    /\ wake = NoTime
    /\ moscow_now = NoTime
    /\ sendAt = NoTime
    /\ sendsToday = 0
    /\ fired = "none"
    /\ entry = "none"
    /\ deferUntil = NoTime
    /\ cleared = "no"
    /\ clean = TRUE
    /\ cancelled = FALSE
    /\ armed = FALSE
    /\ opsDone = 0
    /\ sentText = NoText
    /\ waitText = NoText
    /\ overridden = FALSE
    /\ result = NoResult
    /\ NoDelayedMessages

----------------------------------------------------------------------------
\* The message_scheduler task

\* on_ready (lines 244-255): starts the task once
OnReadyUnguarded ==
    /\ UNCHANGED rest
    /\ UNCHANGED obs
    /\ scheduler_running' = TRUE
    /\ pc' = "start"
    /\ UNCHANGED <<now, daysRun, was_sent_today, is_mark_enabled, wait_day,
                   message, next_target, locked, wake, moscow_now, sendAt,
                   sendsToday, fired, entry, deferUntil, cleared, clean,
                   cancelled, armed, opsDone>>

OnReady ==
    /\ UNCHANGED rest
    /\ UNCHANGED obs
    /\ IF scheduler_running
       THEN UNCHANGED <<scheduler_running, pc>>
       ELSE /\ scheduler_running' = TRUE
            /\ pc' = "start"
    /\ UNCHANGED <<now, daysRun, was_sent_today, is_mark_enabled, wait_day,
                   message, next_target, locked, wake, moscow_now, sendAt,
                   sendsToday, fired, entry, deferUntil, cleared, clean,
                   cancelled, armed, opsDone>>

\* the task is suspended in a sleep that is over
Due(p) == pc = p /\ AtOrBefore(wake, now)

\* the check of line 724 as an equality: the fire time is met, not passed
TargetReachedExactly(t) == At(t, next_target) = t

\* target_datetime <= current_moscow_time (line 724)
TargetReached(t) == AtOrBefore(At(t, next_target), t)

\* what the first send check of an iteration finds
EntryKind(t) ==
    IF next_target < t.sec THEN "elapsed"
    ELSE IF next_target = t.sec THEN "reached" ELSE "future"

\* the text of the wait's start, were it captured when the wait begins
SentMessageAtWaitStart == IF waitText # NoText THEN waitText ELSE message

\* message_content handed to send_message_to_channel (line 750)
SentMessage == message

\* _handle_workday_message_sending from its loop head (lines 712-737) with
\* _send_scheduled_message (lines 739-760), up to the next await; mnow is
\* the iteration's moscow_now, lk the locked floor on entry
SendCheck(mnow, lk) ==
    IF TargetReached(now)
    THEN IF is_mark_enabled
         THEN /\ pc' = "sending"
              /\ wake' = NoTime
              /\ locked' = lk
              /\ sendAt' = now
              /\ sendsToday' = sendsToday + 1
              /\ fired' = "sending"
              /\ sentText' = SentMessage
              /\ UNCHANGED <<next_target, waitText, overridden>>
         ELSE /\ next_target' \in InitializeNextTargetTime(StartTime)
              /\ pc' = "sleep_next"
              /\ wake' = NextWorkingDayTarget(mnow, now)
              /\ locked' = lk
              /\ fired' = "skipped"
              /\ overridden' = FALSE
              /\ UNCHANGED <<sendAt, sendsToday, sentText, waitText>>
    ELSE /\ locked' = next_target
         /\ pc' = "sleep_fire"
         /\ wake' = WaitUntil(At(now, next_target), now)
         /\ fired' = "none"
         /\ waitText' = message
         /\ UNCHANGED <<next_target, sendAt, sendsToday, sentText, overridden>>

\* one pass of the while loop of message_scheduler (lines 648-672) up to its
\* first await: _handle_wait_until_target_day (lines 674-683) or
\* _process_daily_schedule (lines 685-703)
Iteration ==
    /\ UNCHANGED rest
    /\ pc = "start" \/ Due("sleep_next") \/ Due("sleep_defer") \/ Due("cooldown")
    /\ was_sent_today' = FALSE
    /\ moscow_now' = now
    /\ armed' = IF pc = "start" THEN AtOrBefore(now, At(now, EndTime))
                ELSE armed
    /\ IF wait_day # 0
       THEN LET r == CalculateWaitUntilTargetDate(wait_day, now)
            IN  /\ IF r.raised
                   THEN /\ pc' = ExceptionHandler(now).pc
                        /\ wake' = ExceptionHandler(now).wake
                        /\ UNCHANGED wait_day
                   ELSE /\ wait_day' = 0
                        /\ pc' = "sleep_defer"
                        /\ wake' = WaitUntil(r.at, now)
                /\ fired' = "none"
                /\ entry' = "none"
                /\ UNCHANGED <<next_target, locked, sendAt, sendsToday>>
                /\ UNCHANGED obs
       ELSE /\ UNCHANGED wait_day
            /\ IF IsWeekday(now) /\ InWindow(now)
               THEN /\ entry' = EntryKind(now)
                    /\ SendCheck(now, StartTime)
               ELSE /\ locked' = StartTime
                    /\ pc' = "sleep_next"
                    /\ wake' = NextWorkingDayTarget(now, now)
                    /\ fired' = "none"
                    /\ entry' = "none"
                    /\ UNCHANGED <<next_target, sendAt, sendsToday>>
                    /\ UNCHANGED obs
    /\ UNCHANGED <<now, daysRun, scheduler_running, is_mark_enabled, message,
                   deferUntil, cleared, clean, cancelled, opsDone>>

\* the in-window sleep is over: the loop of _handle_workday_message_sending
\* re-reads the clock and checks again (lines 712-731)
Recheck ==
    /\ UNCHANGED rest
    /\ Due("sleep_fire")
    /\ SendCheck(moscow_now, locked)
    /\ UNCHANGED <<now, daysRun, scheduler_running, was_sent_today,
                   is_mark_enabled, wait_day, message, moscow_now, entry,
                   deferUntil, cleared, clean, cancelled, armed, opsDone>>

\* send_message_to_channel returns (True or False): lines 752-760, the
\* regeneration of line 737 and _wait_until_next_working_day (line 703)
SendDone ==
    /\ UNCHANGED rest
    /\ pc = "sending"
    /\ \E success \in BOOLEAN :
          fired' = IF success THEN "sent" ELSE "failed"
    /\ was_sent_today' = TRUE
    /\ next_target' \in InitializeNextTargetTime(StartTime)
    /\ overridden' = FALSE
    /\ UNCHANGED <<sentText, waitText>>
    /\ pc' = "sleep_next"
    /\ wake' = NextWorkingDayTarget(moscow_now, AfterSend(now, sendAt))
    /\ UNCHANGED <<now, daysRun, scheduler_running, is_mark_enabled, wait_day,
                   message, locked, moscow_now, sendAt, sendsToday, entry,
                   deferUntil, cleared, clean, cancelled, armed, opsDone>>

\* a cancellation handled like any other exception: cooldown, then restart
CancelAsError ==
    /\ UNCHANGED rest
    /\ UNCHANGED obs
    /\ pc \in {"start", "sleep_next", "sleep_defer", "sleep_fire",
               "cooldown", "sending"}
    /\ opsDone < MaxOps
    /\ opsDone' = opsDone + 1
    /\ pc' = ExceptionHandler(now).pc
    /\ wake' = ExceptionHandler(now).wake
    /\ cancelled' = TRUE
    /\ clean' = FALSE
    /\ UNCHANGED <<now, daysRun, scheduler_running, was_sent_today,
                   is_mark_enabled, wait_day, message, next_target, locked,
                   moscow_now, sendAt, sendsToday, fired, entry, deferUntil,
                   cleared, armed>>

\* task.cancel() while the task is suspended: CancelledError ends the loop
\* (lines 663-666; inside the cooldown sleep it leaves the handler)
Cancel ==
    /\ UNCHANGED rest
    /\ UNCHANGED obs
    /\ pc \in {"start", "sleep_next", "sleep_defer", "sleep_fire",
               "cooldown", "sending"}
    /\ opsDone < MaxOps
    /\ opsDone' = opsDone + 1
    /\ pc' = "done"
    /\ wake' = NoTime
    /\ cancelled' = TRUE
    /\ clean' = FALSE
    /\ UNCHANGED <<now, daysRun, scheduler_running, was_sent_today,
                   is_mark_enabled, wait_day, message, next_target, locked,
                   moscow_now, sendAt, sendsToday, fired, entry, deferUntil,
                   cleared, armed>>

----------------------------------------------------------------------------
\* Control operations (the Telegram controller calling into DiscordBot);
\* they run to completion between two steps of the scheduler task

\* toggle_auto_mark_callback: disable_sending_in_chat / enable_sending_in_chat
Toggle ==
    /\ UNCHANGED rest
    /\ UNCHANGED obs
    /\ opsDone < MaxOps
    /\ opsDone' = opsDone + 1
    /\ is_mark_enabled' = ~is_mark_enabled
    /\ clean' = FALSE
    /\ cleared' = "no"
    /\ UNCHANGED <<now, daysRun, scheduler_running, was_sent_today, wait_day,
                   message, next_target, locked, pc, wake, moscow_now,
                   sendAt, sendsToday, fired, entry, deferUntil, cancelled,
                   armed>>

\* process_day_number: the wait_until_target_day setter with a day 1..31
SetWaitDay ==
    /\ UNCHANGED rest
    /\ UNCHANGED obs
    /\ opsDone < MaxOps
    /\ opsDone' = opsDone + 1
    /\ \E D \in WaitDays :
          /\ wait_day' = D
          /\ deferUntil' = FirstOccurrence(D, now)
    /\ clean' = FALSE
    /\ cleared' = "no"
    /\ UNCHANGED <<now, daysRun, scheduler_running, was_sent_today,
                   is_mark_enabled, message, next_target, locked, pc, wake,
                   moscow_now, sendAt, sendsToday, fired, entry, cancelled,
                   armed>>

\* clear_wait_day_callback: the wait_until_target_day setter with None
ClearWaitDay ==
    /\ UNCHANGED rest
    /\ UNCHANGED obs
    /\ opsDone < MaxOps
    /\ opsDone' = opsDone + 1
    /\ wait_day' = 0
    /\ deferUntil' = NoTime
    /\ cleared' = "today"
    /\ UNCHANGED <<now, daysRun, scheduler_running, was_sent_today,
                   is_mark_enabled, message, next_target, locked, pc, wake,
                   moscow_now, sendAt, sendsToday, fired, entry, clean,
                   cancelled, armed>>

\* process_message_text: the chat_channel_message setter (lines 97-100)
SetMessage ==
    /\ UNCHANGED rest
    /\ UNCHANGED obs
    /\ opsDone < MaxOps
    /\ opsDone' = opsDone + 1
    /\ \E x \in Texts : message' = x
    /\ UNCHANGED <<now, daysRun, scheduler_running, was_sent_today,
                   is_mark_enabled, wait_day, next_target, locked, pc, wake,
                   moscow_now, sendAt, sendsToday, fired, entry, deferUntil,
                   cleared, clean, cancelled, armed>>

\* a datetime.time value, as its second of the day (the isinstance check of
\* line 223)
IsTime(t) == t \in 0..(24 * SECONDS_IN_HOUR - 1)

\* the window check of line 226 with its upper end left out
TimeIsAcceptedOpenEnd(t) == IsTime(t) /\ StartTime <= t /\ t < EndTime

\* set_next_target_time_once raises neither TypeError nor ValueError
TimeIsAccepted(t) == IsTime(t) /\ StartTime <= t /\ t <= EndTime

\* set_next_target_time_once(t): a value that is not accepted raises and
\* changes nothing
SetNextTargetTimeOnceCall(t) ==
    /\ opsDone < MaxOps
    /\ opsDone' = opsDone + 1
    /\ next_target' = IF TimeIsAccepted(t) THEN t ELSE next_target
    /\ overridden' = IF TimeIsAccepted(t)
                     THEN /\ IsWeekday(now) /\ sendsToday = 0
                          /\ pc \in {"sleep_next", "sleep_fire"}
                          /\ fired # "skipped"
                          /\ Before(now, At(now, t))
                     ELSE overridden
    /\ UNCHANGED <<now, daysRun, scheduler_running, was_sent_today,
                   is_mark_enabled, wait_day, message, locked, pc, wake,
                   moscow_now, sendAt, sendsToday, fired, entry, deferUntil,
                   cleared, clean, cancelled, armed, sentText, waitText>>

SetNextTargetTimeOnce ==
    /\ UNCHANGED rest
    /\ \E t \in OverrideTimes : SetNextTargetTimeOnceCall(t)

\* the times regenerate_next_target_time picks from once a fire time exists
\* (lines 203-215)
RegeneratePicks ==
    InitializeNextTargetTime(IF locked # NoSec THEN locked ELSE next_target)

\* regenerate_next_target_time(): a pick that raises changes nothing
RegenerateNextTargetTimeCall ==
    /\ opsDone < MaxOps
    /\ opsDone' = opsDone + 1
    /\ IF RegeneratePicks = {} THEN UNCHANGED <<next_target, overridden>>
       ELSE /\ next_target' \in RegeneratePicks
            /\ overridden' = FALSE
    /\ UNCHANGED <<now, daysRun, scheduler_running, was_sent_today,
                   is_mark_enabled, wait_day, message, locked, pc, wake,
                   moscow_now, sendAt, sendsToday, fired, entry, deferUntil,
                   cleared, clean, cancelled, armed, sentText, waitText>>

RegenerateNextTargetTime ==
    /\ UNCHANGED rest
    /\ RegenerateNextTargetTimeCall

----------------------------------------------------------------------------
\* The next-fire query (property next_target_time, lines 102-140).  The
\* string it formats ('%H:%M:%S - %d.%m.%Y') carries a date and a time of
\* day to the second: the instant at, with us = 0.

\* today is skipped only when the fire time has passed (lines 133-135 left
\* out)
QuerySkipsTodayIfElapsed(t) ==
    t.sec > next_target \/ (t.sec = next_target /\ t.us > 0)

\* the two continue conditions for days_ahead = 0 (lines 129-135)
QuerySkipsToday(t) ==
    \/ t.sec > next_target \/ (t.sec = next_target /\ t.us > 0)
    \/ was_sent_today /\ t.sec >= StartTime

NextTargetTimeQuery(t) ==
    IF wait_day # 0
    THEN LET r == CalculateWaitUntilTargetDate(wait_day, t)
         IN  IF r.raised THEN [kind |-> "raised", at |-> NoTime]
             ELSE [kind |-> "at", at |-> At(r.at, next_target)]
    ELSE IF ~is_mark_enabled THEN [kind |-> "disabled", at |-> NoTime]
    ELSE LET ok(k) == /\ IsWeekday(AddDays(t, k))
                      /\ ~(k = 0 /\ QuerySkipsToday(t))
             ks == { k \in 0..7 : ok(k) }
         IN  IF ks = {} THEN [kind |-> "undefined", at |-> NoTime]
             ELSE LET k == CHOOSE x \in ks : \A z \in ks : x <= z
                  IN  [kind |-> "at", at |-> At(AddDays(t, k), next_target)]

----------------------------------------------------------------------------
\* The clock

GridIndex(t) ==
    CHOOSE i \in DOMAIN DayGrid :
        DayGrid[i].sec = t.sec /\ DayGrid[i].us = t.us

\* the next sampled instant after t
NextInstant(t) ==
    LET i == GridIndex(t)
    IN  IF i < Len(DayGrid)
        THEN [t EXCEPT !.sec = DayGrid[i + 1].sec, !.us = DayGrid[i + 1].us]
        ELSE [AddDay(t) EXCEPT !.sec = DayGrid[1].sec, !.us = DayGrid[1].us]

\* the task is runnable: created and not yet run, or its sleep is over
Runnable ==
    \/ pc = "start"
    \/ pc \in {"sleep_next", "sleep_defer", "sleep_fire", "cooldown"}
         /\ AtOrBefore(wake, now)

\* moving the clock to n would resume the runnable task a second or more late
WakesLate(n) == Runnable /\ ~(SameDate(n, now) /\ n.sec = now.sec)

Advance(n) ==
    /\ UNCHANGED rest
    /\ SameDate(n, now) \/ (daysRun < MaxDays /\ pc \notin {"init", "sending"})
    /\ now' = n
    /\ daysRun' = IF SameDate(n, now) THEN daysRun ELSE daysRun + 1
    /\ sendsToday' = IF SameDate(n, now) THEN sendsToday ELSE 0
    /\ sendAt' = IF SameDate(n, now) THEN sendAt ELSE NoTime
    /\ sentText' = IF SameDate(n, now) THEN sentText ELSE NoText
    /\ waitText' = IF SameDate(n, now) THEN waitText ELSE NoText
    /\ overridden' = (SameDate(n, now) /\ overridden)
    /\ armed' = IF SameDate(n, now) THEN armed
                ELSE pc \notin {"init", "start", "done"}
    /\ cleared' = IF ~SameDate(n, now) /\ cleared = "today" THEN "earlier"
                  ELSE cleared
    /\ UNCHANGED <<scheduler_running, was_sent_today, is_mark_enabled,
                   wait_day, message, next_target, locked, pc, wake,
                   moscow_now, fired, entry, deferUntil, clean, cancelled,
                   opsDone>>

\* time passes; the event loop resumes a runnable task within the second
Tick == ~WakesLate(NextInstant(now)) /\ Advance(NextInstant(now))

\* time passes while the task is runnable: the sleep wakes late (a loaded
\* or suspended host)
LateTick == WakesLate(NextInstant(now)) /\ Advance(NextInstant(now))

----------------------------------------------------------------------------
\* Specifications

Scheduler == OnReady \/ Iteration \/ Recheck \/ SendDone \/ Cancel

Control ==
    \/ Toggle
    \/ SetWaitDay
    \/ ClearWaitDay
    \/ SetNextTargetTimeOnce
    \/ RegenerateNextTargetTime

\* sleeps wake on time
Next == Scheduler \/ Control \/ Tick

Spec == Init /\ [][Next]_vars

\* sleeps may wake late
NextLate == Next \/ LateTick

SpecLate == Init /\ [][NextLate]_vars

\* The first day of a run with the text of the message changed as well
SameDayTick == SameDate(NextInstant(now), now) /\ Tick

NextMsg == Scheduler \/ Control \/ SetMessage \/ SameDayTick

SpecMsg == Init /\ [][NextMsg]_vars

\* Every control operation, the change of the text included, with sleeps
\* that wake on time or later on the day they were due
SameDayLateTick == SameDate(NextInstant(now), now) /\ LateTick

NextOps == Scheduler \/ Control \/ SetMessage \/ Tick \/ SameDayLateTick

SpecOps == Init /\ [][NextOps]_vars

----------------------------------------------------------------------------
\* The deferral target computation on its own: Init draws the current time
\* and the deferred day, Calculate applies _calculate_wait_until_target_date

\* the current date is drawn from two whole years: a leap February, every
\* month end, a year end
CalcDates == { [y |-> yy, m |-> mm, d |-> dd, sec |-> 0, us |-> 0] :
                 yy \in {2024, 2025}, mm \in 1..12, dd \in 1..31 }

InitCalc ==
    /\ \E c \in CalcDates : \E i \in DOMAIN DayGrid :
          /\ c.d <= DaysInMonth(c.y, c.m)
          /\ now = [c EXCEPT !.sec = DayGrid[i].sec, !.us = DayGrid[i].us]
    /\ wait_day \in 1..31
    /\ result = NoResult
    /\ next_target = EndTime
    /\ daysRun = 0
    /\ scheduler_running = FALSE
    /\ was_sent_today = FALSE
    /\ is_mark_enabled = TRUE
    /\ message = "+"
    /\ locked = NoSec
    /\ pc = "init"
    /\ wake = NoTime
    /\ moscow_now = NoTime
    /\ sendAt = NoTime
    /\ sendsToday = 0
    /\ fired = "none"
    /\ entry = "none"
    /\ deferUntil = NoTime
    /\ cleared = "no"
    /\ clean = TRUE
    /\ cancelled = FALSE
    /\ armed = FALSE
    /\ opsDone = 0
    /\ sentText = NoText
    /\ waitText = NoText
    /\ overridden = FALSE
    /\ NoDelayedMessages

Calculate ==
    /\ result = NoResult
    /\ UNCHANGED obs
    /\ UNCHANGED delayed
    /\ result' = [kind |-> "target",
                  raised |-> CalculateWaitUntilTargetDate(wait_day, now).raised,
                  at |-> CalculateWaitUntilTargetDate(wait_day, now).at]
    /\ UNCHANGED <<now, daysRun, scheduler_running, was_sent_today,
                   is_mark_enabled, wait_day, message, next_target, locked,
                   pc, wake, moscow_now, sendAt, sendsToday, fired, entry,
                   deferUntil, cleared, clean, cancelled, armed, opsDone>>

NextCalc == Calculate

SpecCalc == InitCalc /\ [][NextCalc]_vars

----------------------------------------------------------------------------
\* The calls of the control surface on their own: Init draws the state of a
\* scheduler that waits inside Friday's window for a committed fire time,
\* the actions make one call and record how it ended

\* seconds of the day at both ends of the window
ObjSecs == { StartTime, StartTime + 1, StartTime + WORK_DAY_END_SECOND_SHIFT,
             EndTime - 4, EndTime - 2, EndTime - 1, EndTime }

\* values passed to set_next_target_time_once: NoSec is a value that is not
\* a time
OverrideArgs == ObjSecs \cup { NoSec, StartTime - 1, EndTime + 1 }

InitObj ==
    /\ \E sd \in StartDates :
          now = [y |-> sd.y, m |-> sd.m, d |-> sd.d,
                 sec |-> StartTime, us |-> 0]
    /\ moscow_now = now
    /\ next_target \in ObjSecs
    /\ locked \in ObjSecs \ {StartTime}
    /\ wake = At(now, locked)
    /\ pc = "sleep_fire"
    /\ is_mark_enabled \in BOOLEAN
    /\ wait_day \in {0} \cup WaitDays
    /\ deferUntil = IF wait_day = 0 THEN NoTime ELSE FirstOccurrence(wait_day, now)
    /\ clean = (is_mark_enabled /\ wait_day = 0)
    /\ opsDone = MaxOps - 1
    /\ daysRun = 0
    /\ scheduler_running = TRUE
    /\ was_sent_today = FALSE
    /\ message = "+"
    /\ sendAt = NoTime
    /\ sendsToday = 0
    /\ fired = "none"
    /\ entry = "future"
    /\ cleared = "no"
    /\ cancelled = FALSE
    /\ armed = TRUE
    /\ sentText = NoText
    /\ waitText = message
    /\ overridden = FALSE
    /\ result = NoResult
    /\ NoDelayedMessages

OverrideCall ==
    \E t \in OverrideArgs :
       /\ SetNextTargetTimeOnceCall(t)
       /\ UNCHANGED delayed
       /\ result' = [kind |-> "override", t |-> t,
                     raised |-> ~TimeIsAccepted(t)]

RegenerateCall ==
    /\ RegenerateNextTargetTimeCall
    /\ UNCHANGED delayed
    /\ result' = [kind |-> "regenerate", floor |-> locked,
                  raised |-> (RegeneratePicks = {})]

NextObj == OverrideCall \/ RegenerateCall

SpecObj == InitObj /\ [][NextObj]_vars

----------------------------------------------------------------------------
\* get_random_time_in_range on its own: Init draws the two bounds, Pick
\* applies the function

\* the bounds are drawn around 12:00:00, across a minute and an hour boundary
PickSecs == (EndTime - 6)..(EndTime + 5)

\* every variable of the scheduler and of its observation, as constructed
\* and before the task is started, except now, next_target and result
FreshRecurring ==
    /\ daysRun = 0
    /\ scheduler_running = FALSE
    /\ was_sent_today = FALSE
    /\ is_mark_enabled = TRUE
    /\ wait_day = 0
    /\ message = "+"
    /\ locked = NoSec
    /\ pc = "init"
    /\ wake = NoTime
    /\ moscow_now = NoTime
    /\ sendAt = NoTime
    /\ sendsToday = 0
    /\ fired = "none"
    /\ entry = "none"
    /\ deferUntil = NoTime
    /\ cleared = "no"
    /\ clean = TRUE
    /\ cancelled = FALSE
    /\ armed = FALSE
    /\ opsDone = 0
    /\ sentText = NoText
    /\ waitText = NoText
    /\ overridden = FALSE

\* the same with the Telegram controller, as constructed with nothing
\* persisted
Fresh == FreshRecurring /\ NoDelayedMessages

InitPick ==
    /\ \E L \in PickSecs : \E E \in PickSecs :
          result = [kind |-> "bounds", start |-> L, end |-> E]
    /\ \E sd \in StartDates :
          now = [y |-> sd.y, m |-> sd.m, d |-> sd.d,
                 sec |-> DayGrid[1].sec, us |-> DayGrid[1].us]
    /\ next_target = EndTime
    /\ Fresh

Pick ==
    /\ result.kind = "bounds"
    /\ UNCHANGED obs
    /\ UNCHANGED delayed
    /\ LET picks == GetRandomTimeInRange(result.start, result.end)
       IN  IF picks = {}
           THEN result' = [kind |-> "pick", start |-> result.start,
                           end |-> result.end, raised |-> TRUE, t |-> NoSec]
           ELSE \E x \in picks :
                  result' = [kind |-> "pick", start |-> result.start,
                             end |-> result.end, raised |-> FALSE, t |-> x]
    /\ UNCHANGED <<now, daysRun, scheduler_running, was_sent_today,
                   is_mark_enabled, wait_day, message, next_target, locked,
                   pc, wake, moscow_now, sendAt, sendsToday, fired, entry,
                   deferUntil, cleared, clean, cancelled, armed, opsDone>>

NextPick == Pick

SpecPick == InitPick /\ [][NextPick]_vars

----------------------------------------------------------------------------
\* The constructor on its own: Init draws the instant the process is started
\* at, Construct runs DiscordBot.__init__, and the control surface is then
\* called on the object it built; result records how the constructor ended
\* and the last call made

\* seconds of the day around both ends of the window
NewSecs == { StartTime - 1, StartTime, EndTime - 4, EndTime - 2, EndTime - 1,
             EndTime, EndTime + 1 }

InitNew ==
    /\ \E sd \in StartDates : \E s \in NewSecs : \E u \in {0, 1} :
          now = [y |-> sd.y, m |-> sd.m, d |-> sd.d, sec |-> s, us |-> u]
    /\ next_target = NoSec
    /\ result = [kind |-> "new", raised |-> FALSE, call |-> "none"]
    /\ Fresh

\* __init__ (lines 60-65): _next_target_time is None until
\* regenerate_next_target_time has picked; a pick that raises leaves the
\* constructor through the exception
Construct ==
    /\ result.kind = "new"
    /\ IF ConstructorPicks(now) = {}
       THEN /\ UNCHANGED next_target
            /\ result' = [kind |-> "constructed", raised |-> TRUE,
                       call |-> "__init__"]
       ELSE /\ next_target' \in ConstructorPicks(now)
            /\ result' = [kind |-> "constructed", raised |-> FALSE,
                       call |-> "__init__"]
    /\ UNCHANGED obs
    /\ UNCHANGED delayed
    /\ UNCHANGED <<now, daysRun, scheduler_running, was_sent_today,
                   is_mark_enabled, wait_day, message, locked, pc, wake,
                   moscow_now, sendAt, sendsToday, fired, entry, deferUntil,
                   cleared, clean, cancelled, armed, opsDone>>

Constructed == result.kind = "constructed" /\ ~result.raised

NewOverride ==
    /\ Constructed
    /\ \E t \in OverrideArgs : SetNextTargetTimeOnceCall(t)
    /\ result' = [result EXCEPT !.call = "set_next_target_time_once"]
    /\ UNCHANGED delayed

NewRegenerate ==
    /\ Constructed
    /\ RegenerateNextTargetTimeCall
    /\ result' = [result EXCEPT !.call = "regenerate_next_target_time"]
    /\ UNCHANGED delayed

NextNew == Construct \/ NewOverride \/ NewRegenerate

SpecNew == InitNew /\ [][NextNew]_vars

----------------------------------------------------------------------------
\* Delayed messages (src/src/telegram_bot/bot.py): the store, the registry of
\* wait tasks, the persisted file, the attachment files, the creation flow
\* kept in the FSM context, and the schedule_delayed_message task of every
\* message.  A message is a record [date_time, parts, attachments]: its text
\* is represented by the number of parts _split_long_text cuts it into, an
\* attachment by the path of its file, <<message id, file name>>.  A message
\* with attachments is sent through send_message_with_files_to_channel, one
\* batch of files going with the first part, so that both send functions
\* have the same awaits.  A task is a record
\*   [id, pc, wake, parts, chunk, attempt, ok, err]
\* where pc is the await the task is suspended at:
\*   "created"  created by asyncio.create_task, not yet run
\*   "sleep"    asyncio.sleep(wait_seconds) until wake
\*   "send"     channel.send of part number chunk
\*   "pause"    asyncio.sleep between two parts
\*   "retry"    asyncio.sleep(retry_delay) before the next attempt
\*   "notify"   bot.send_message of the delivery (ok) or failure notification
\*   "done"     returned
\*   "cancelled" ended by a CancelledError
\*   "killed"   gone with the process it ran in
\* and err is what made the last attempt of the send fail.

\* ids the creation flow may assign
MsgIds == {1, 2}

\* number of parts _split_long_text cuts a message text into
Parts == {1, 2}

\* seconds of the day the operator types as a time-only fire time
FireSecs == {StartTime, EndTime}

\* names of the files the operator uploads
FileNames == {"a"}

\* send_message_to_channel: max_retries
MAX_RETRIES == 3

\* every variable of the recurring scheduler and of its observation
recurring == <<scheduler_running, was_sent_today, is_mark_enabled, wait_day,
               message, next_target, locked, pc, wake, moscow_now, sendAt,
               sendsToday, fired, entry, deferUntil, cleared, clean,
               cancelled, armed, sentText, waitText, overridden, result>>

\* d[k] = v and del d[k] on a dict
Put(d, k, v) == [x \in DOMAIN d \cup {k} |-> IF x = k THEN v ELSE d[x]]

Remove(d, k) == [x \in DOMAIN d \ {k} |-> d[x]]

\* the elements of a list
Range(s) == { s[i] : i \in DOMAIN s }

\* list.pop(i), 1-based
Pop(s, i) == [j \in 1..(Len(s) - 1) |-> IF j < i THEN s[j] ELSE s[j + 1]]

\* parse_datetime_string for the time-only format: today at that time, or
\* tomorrow when that time is not later than the clock
ParseDatetimeString(sec, mnow) ==
    LET target_dt == At(mnow, sec)
    IN  IF AtOrBefore(target_dt, mnow) THEN AddDay(target_dt) ELSE target_dt

\* download_file: the path a file of a message is stored at
FilePath(message_id, file_name) == <<message_id, file_name>>

----------------------------------------------------------------------------
\* The persisted file

\* str(msg_id) and int(msg_id_str)
Str(i) == <<"str", i>>

ParseInt(s) == s[2]

\* datetime.isoformat() and datetime.fromisoformat()
IsoFormat(t) == <<t.y, t.m, t.d, t.sec, t.us>>

FromIsoFormatToTheSecond(s) ==
    [y |-> s[1], m |-> s[2], d |-> s[3], sec |-> s[4], us |-> 0]

FromIsoFormat(s) ==
    [y |-> s[1], m |-> s[2], d |-> s[3], sec |-> s[4], us |-> s[5]]

\* the keys of a dict in the order the loop of save_delayed_messages visits
\* them (ids are inserted in ascending order)
KeysInOrder(d) ==
    CHOOSE s \in [1..Cardinality(DOMAIN d) -> DOMAIN d] :
        \A i \in DOMAIN s : \A j \in DOMAIN s : i < j => s[i] < s[j]

\* no file, and a file json.load cannot read
NoFile == [kind |-> "none", next_message_id |-> 0, messages |-> << >>]

Unreadable == [kind |-> "unreadable", next_message_id |-> 0, messages |-> << >>]

\* what save_delayed_messages writes for a store and a next id: one record
\* per message, all keys present
SaveDelayedMessages(dm, nid) ==
    [kind |-> "file",
     next_message_id |-> nid,
     messages |-> [i \in 1..Cardinality(DOMAIN dm) |->
                     LET id == KeysInOrder(dm)[i]
                     IN  [key |-> Str(id),
                          date_time |-> IsoFormat(dm[id].date_time),
                          parts |-> dm[id].parts,
                          attachments |-> dm[id].attachments,
                          well_formed |-> TRUE]]]

\* load_delayed_messages at time t on file p: the next id, the store, the
\* files removed, and whether the load ended in the except clause.  The loop
\* stops at the first record it cannot parse; what it stored before stays,
\* and _cleanup_expired_messages is then not reached.
FirstMalformed(p) ==
    LET bad == { i \in DOMAIN p.messages : ~p.messages[i].well_formed }
    IN  IF bad = {} THEN Len(p.messages) + 1
        ELSE CHOOSE i \in bad : \A j \in bad : i <= j

\* _cleanup_expired_messages: the files of the attachments of the records
\* of file p at the indices idx
NoAttachmentFiles(p, idx) == {}

AttachmentFiles(p, idx) ==
    UNION { Range(p.messages[i].attachments) : i \in idx }

ExpiredWhateverItsTime(rec, t) == TRUE

Expired(rec, t) == AtOrBefore(FromIsoFormat(rec.date_time), t)

LoadDelayedMessages(p, t) ==
    IF p.kind # "file"
    THEN [next_message_id |-> 1, delayed_messages |-> EmptyDict,
          removed |-> {}, failed |-> (p.kind = "unreadable")]
    ELSE LET stop == FirstMalformed(p)
             read == { i \in DOMAIN p.messages : i < stop }
             kept == { i \in read : ~Expired(p.messages[i], t) }
             ids  == { ParseInt(p.messages[i].key) : i \in kept }
             rec(id) == p.messages[CHOOSE i \in kept :
                                       ParseInt(p.messages[i].key) = id]
         IN  [next_message_id |-> p.next_message_id,
              delayed_messages |->
                  [id \in ids |->
                      [date_time |-> FromIsoFormat(rec(id).date_time),
                       parts |-> rec(id).parts,
                       attachments |-> rec(id).attachments]],
              removed |->
                  IF stop <= Len(p.messages) THEN {}
                  ELSE AttachmentFiles(p, read \ kept),
              failed |-> (stop <= Len(p.messages))]

----------------------------------------------------------------------------
\* Wait tasks

\* asyncio.create_task(self.schedule_delayed_message(delayed_msg))
NewTask(id) ==
    [id |-> id, pc |-> "created", wake |-> NoTime, parts |-> 0, chunk |-> 0,
     attempt |-> 0, ok |-> FALSE, err |-> "none"]

\* a task that has ended keeps its id and how it ended; its locals are gone
Ended(t, how) == [NewTask(t.id) EXCEPT !.pc = how]

\* the send call returned: the task keeps the result and what made the last
\* attempt fail, the locals of the call are gone
Returned(t, ok, err) ==
    [NewTask(t.id) EXCEPT !.pc = "notify", !.ok = ok, !.err = err]

Live(t) == t.pc \notin {"done", "cancelled", "killed"}

\* Task.cancel(): a task that has not finished gets a CancelledError at the
\* await it is suspended at; schedule_delayed_message catches it and returns
\* without touching the store or the registry
CancelTaskIgnored(t) == t

CancelTask(t) ==
    IF Live(t) THEN Ended(t, "cancelled") ELSE t

\* self.delayed_tasks[message_id].cancel() when the id is registered
CancelRegistered(id) ==
    [k \in DOMAIN tasks |->
        IF id \in DOMAIN delayed_tasks /\ delayed_tasks[id] = k
        THEN CancelTask(tasks[k]) ELSE tasks[k]]

\* send_message_to_channel from the top of attempt number att (0-based) up
\* to its next await or return: the loop is exhausted (the function returns
\* None), the connection is closed, the channel is not found, or the first
\* part is handed to channel.send
AttemptOutcomes(t, att) ==
    IF att >= MAX_RETRIES
    THEN { Returned(t, FALSE, t.err) }
    ELSE { [t EXCEPT !.pc = "retry", !.attempt = att, !.chunk = 0,
                     !.err = "closed"],
           Returned(t, FALSE, "no_channel"),
           [t EXCEPT !.pc = "send", !.chunk = 1, !.attempt = att] }

\* the call of the send function with the text the message has now
CallSend(t) ==
    LET parts == IF t.id \in DOMAIN delayed_messages
                 THEN delayed_messages[t.id].parts ELSE t.parts
    IN  AttemptOutcomes([t EXCEPT !.parts = parts, !.wake = NoTime], 0)

DelayedFrame == UNCHANGED <<now, daysRun, opsDone, recurring>>

\* what a step of a wait task leaves alone unless it says otherwise
TaskFrame ==
    UNCHANGED <<now, daysRun, opsDone, recurring, next_message_id, flow, up,
                loaded, download>>

----------------------------------------------------------------------------
\* The creation flow

NoFlow == [id |-> 0, date_time |-> NoTime, parts |-> 0, attachments |-> << >>]

\* process_delayed_message_datetime with a well-formed time: the FSM data
\* gets the text stored by process_delayed_message_text, the parsed time,
\* the id the message will have, and no attachment
ProcessDelayedMessageDatetime ==
    /\ up
    /\ next_message_id \in MsgIds
    /\ \E sec \in FireSecs : \E parts \in Parts :
          flow' = [id |-> next_message_id,
                   date_time |-> ParseDatetimeString(sec, now),
                   parts |-> parts,
                   attachments |-> << >>]
    /\ UNCHANGED <<delayed_messages, delayed_tasks, next_message_id, tasks,
                   channel, persisted, files, up, loaded, notifications,
                   download>>
    /\ DelayedFrame

\* process_delayed_message_attachments with a valid file: the file is
\* downloaded and added to the attachments of the FSM data
ProcessDelayedMessageAttachments ==
    /\ up
    /\ opsDone < MaxOps
    /\ flow # NoFlow
    /\ \E name \in FileNames :
          /\ files' = files \cup {FilePath(flow.id, name)}
          /\ flow' = [flow EXCEPT !.attachments =
                         Append(flow.attachments, FilePath(flow.id, name))]
    /\ opsDone' = opsDone + 1
    /\ UNCHANGED <<delayed_messages, delayed_tasks, next_message_id, tasks,
                   channel, persisted, up, loaded, notifications,
                   download>>
    /\ UNCHANGED <<now, daysRun, recurring>>

\* cancel_creating_message_callback: the files of the FSM data are removed
\* and the FSM context is cleared
CancelCreatingMessage ==
    /\ up
    /\ flow # NoFlow
    /\ files' = files \ Range(flow.attachments)
    /\ flow' = NoFlow
    /\ UNCHANGED <<delayed_messages, delayed_tasks, next_message_id, tasks,
                   channel, persisted, up, loaded, notifications,
                   download>>
    /\ DelayedFrame

\* finalize_delayed_message: the message of the FSM data is stored under the
\* id of the FSM data, the next id is advanced, the store is persisted, the
\* wait task is started and registered, the FSM context is cleared
FinalizeDelayedMessage ==
    /\ up
    /\ flow # NoFlow
    /\ delayed_messages' =
          Put(delayed_messages, flow.id,
              [date_time |-> flow.date_time, parts |-> flow.parts,
               attachments |-> flow.attachments])
    /\ next_message_id' = next_message_id + 1
    /\ persisted' = SaveDelayedMessages(delayed_messages', next_message_id')
    /\ tasks' = Append(tasks, NewTask(flow.id))
    /\ delayed_tasks' = Put(delayed_tasks, flow.id, Len(tasks) + 1)
    /\ flow' = NoFlow
    /\ UNCHANGED <<channel, files, up, loaded, notifications,
                   download>>
    /\ DelayedFrame

----------------------------------------------------------------------------
\* Operations on a stored message

\* process_edit_delayed_text: sets the text and persists
ProcessEditDelayedText ==
    /\ up
    /\ opsDone < MaxOps
    /\ \E id \in DOMAIN delayed_messages : \E parts \in Parts :
          delayed_messages' = [delayed_messages EXCEPT ![id].parts = parts]
    /\ persisted' = SaveDelayedMessages(delayed_messages', next_message_id)
    /\ opsDone' = opsDone + 1
    /\ UNCHANGED <<delayed_tasks, next_message_id, tasks, channel, files,
                   flow, up, loaded, notifications,
                   download>>
    /\ UNCHANGED <<now, daysRun, recurring>>

\* process_edit_delayed_datetime with a well-formed time: cancels the
\* registered task, sets the new fire time, persists, starts a new task
ProcessEditDelayedDatetime ==
    /\ up
    /\ opsDone < MaxOps
    /\ \E id \in DOMAIN delayed_messages : \E sec \in FireSecs :
          /\ delayed_messages' =
                [delayed_messages EXCEPT
                    ![id].date_time = ParseDatetimeString(sec, now)]
          /\ tasks' = Append(CancelRegistered(id), NewTask(id))
          /\ delayed_tasks' = Put(delayed_tasks, id, Len(tasks) + 1)
    /\ persisted' = SaveDelayedMessages(delayed_messages', next_message_id)
    /\ opsDone' = opsDone + 1
    /\ UNCHANGED <<next_message_id, channel, files, flow, up, loaded, notifications,
                   download>>
    /\ UNCHANGED <<now, daysRun, recurring>>

\* no download is waited for
NoDownload == [id |-> 0, name |-> ""]

\* process_adding_attachments with a valid file, up to its await of
\* download_file: the message is in the store and the download begins
ProcessAddingAttachments ==
    /\ up
    /\ opsDone < MaxOps
    /\ download = NoDownload
    /\ \E id \in DOMAIN delayed_messages : \E name \in FileNames :
          download' = [id |-> id, name |-> name]
    /\ opsDone' = opsDone + 1
    /\ UNCHANGED <<delayed_messages, delayed_tasks, next_message_id, tasks,
                   channel, persisted, files, flow, up, loaded, notifications>>
    /\ UNCHANGED <<now, daysRun, recurring>>

\* download_file returns to process_adding_attachments: the file is on
\* disk; it is appended to the attachments of the stored message, or, when
\* the message is no longer stored, the lookup raises and the handler
\* reports the error
AddingDownloadDone ==
    /\ up
    /\ download # NoDownload
    /\ files' = files \cup {FilePath(download.id, download.name)}
    /\ delayed_messages' =
          IF download.id \in DOMAIN delayed_messages
          THEN [delayed_messages EXCEPT ![download.id].attachments =
                   Append(delayed_messages[download.id].attachments,
                          FilePath(download.id, download.name))]
          ELSE delayed_messages
    /\ download' = NoDownload
    /\ UNCHANGED <<delayed_tasks, next_message_id, tasks, channel, persisted,
                   flow, up, loaded, notifications>>
    /\ DelayedFrame

\* delete_attachment_callback: removes the file, pops the attachment,
\* persists
DeleteAttachment ==
    /\ up
    /\ opsDone < MaxOps
    /\ \E id \in DOMAIN delayed_messages :
       \E i \in DOMAIN delayed_messages[id].attachments :
          /\ files' = files \ {delayed_messages[id].attachments[i]}
          /\ delayed_messages' =
                [delayed_messages EXCEPT ![id].attachments =
                    Pop(delayed_messages[id].attachments, i)]
    /\ persisted' = SaveDelayedMessages(delayed_messages', next_message_id)
    /\ opsDone' = opsDone + 1
    /\ UNCHANGED <<delayed_tasks, next_message_id, tasks, channel, flow, up, loaded, notifications,
                   download>>
    /\ UNCHANGED <<now, daysRun, recurring>>

\* cleanup_message_files: the files left once those of a stored message are
\* removed
CleanupMessageFilesRemovesNone(id) == files

CleanupMessageFiles(id) ==
    IF id \in DOMAIN delayed_messages
    THEN files \ Range(delayed_messages[id].attachments)
    ELSE files

\* delete_delayed_message_callback: cancels the registered task, removes the
\* files and the message, persists
DeleteDelayedMessage ==
    /\ up
    /\ opsDone < MaxOps
    /\ \E id \in DOMAIN delayed_messages :
          /\ tasks' = CancelRegistered(id)
          /\ delayed_tasks' = Remove(delayed_tasks, id)
          /\ files' = CleanupMessageFiles(id)
          /\ delayed_messages' = Remove(delayed_messages, id)
    /\ persisted' = SaveDelayedMessages(delayed_messages', next_message_id)
    /\ opsDone' = opsDone + 1
    /\ UNCHANGED <<next_message_id, channel, flow, up, loaded, notifications,
                   download>>
    /\ UNCHANGED <<now, daysRun, recurring>>

----------------------------------------------------------------------------
\* The steps of a wait task

\* schedule_delayed_message from its first line to its first await
TaskStart ==
    \E k \in DOMAIN tasks :
    /\ tasks[k].pc = "created"
    /\ LET fire_at == delayed_messages[tasks[k].id].date_time
       IN  IF Before(now, fire_at)
           THEN tasks' = [tasks EXCEPT ![k].pc = "sleep", ![k].wake = fire_at]
           ELSE \E t \in CallSend(tasks[k]) : tasks' = [tasks EXCEPT ![k] = t]
    /\ UNCHANGED <<delayed_messages, delayed_tasks, channel, persisted, files,
                   notifications>>
    /\ TaskFrame

\* the sleep until the fire time is over: the task calls the send
TaskWakeAnyTime ==
    \E k \in DOMAIN tasks :
    /\ tasks[k].pc = "sleep"
    /\ \E t \in CallSend(tasks[k]) : tasks' = [tasks EXCEPT ![k] = t]
    /\ UNCHANGED <<delayed_messages, delayed_tasks, channel, persisted, files,
                   notifications>>
    /\ TaskFrame

TaskWake ==
    \E k \in DOMAIN tasks :
    /\ tasks[k].pc = "sleep"
    /\ AtOrBefore(tasks[k].wake, now)
    /\ \E t \in CallSend(tasks[k]) : tasks' = [tasks EXCEPT ![k] = t]
    /\ UNCHANGED <<delayed_messages, delayed_tasks, channel, persisted, files,
                   notifications>>
    /\ TaskFrame

\* channel.send(text_part) delivers the part: the next part follows after a
\* pause, the last part ends the call with True
ChannelSendDelivers ==
    \E k \in DOMAIN tasks :
    /\ tasks[k].pc = "send"
    /\ channel' = Append(channel, [id |-> tasks[k].id, task |-> k,
                                   chunk |-> tasks[k].chunk])
    /\ tasks' = IF tasks[k].chunk < tasks[k].parts
                THEN [tasks EXCEPT ![k].pc = "pause",
                                   ![k].chunk = tasks[k].chunk + 1]
                ELSE [tasks EXCEPT ![k] = Returned(tasks[k], TRUE, "none")]
    /\ UNCHANGED <<delayed_messages, delayed_tasks, persisted, files,
                   notifications>>
    /\ TaskFrame

\* what the handling of a connection error leads to: a retry after a delay,
\* unless this was the last attempt
AfterConnectionErrorAlwaysRetries(t) ==
    [t EXCEPT !.pc = "retry", !.chunk = 0, !.err = "connection"]

AfterConnectionError(t) ==
    IF t.attempt < MAX_RETRIES - 1
    THEN [t EXCEPT !.pc = "retry", !.chunk = 0, !.err = "connection"]
    ELSE Returned(t, FALSE, "connection")

\* channel.send(text_part) raises: a connection error (ConnectionClosed,
\* ConnectionResetError, OSError) is retried after a delay unless this was
\* the last attempt, any other error (Forbidden, NotFound, HTTPException)
\* ends the call with False
ChannelSendRaises ==
    \E k \in DOMAIN tasks :
    /\ tasks[k].pc = "send"
    /\ \/ tasks' = [tasks EXCEPT ![k] = AfterConnectionError(tasks[k])]
       \/ tasks' = [tasks EXCEPT ![k] = Returned(tasks[k], FALSE, "http")]
    /\ UNCHANGED <<delayed_messages, delayed_tasks, channel, persisted, files,
                   notifications>>
    /\ TaskFrame

\* the pause between two parts is over
PauseOver ==
    \E k \in DOMAIN tasks :
    /\ tasks[k].pc = "pause"
    /\ tasks' = [tasks EXCEPT ![k].pc = "send"]
    /\ UNCHANGED <<delayed_messages, delayed_tasks, channel, persisted, files,
                   notifications>>
    /\ TaskFrame

\* the retry delay is over: the next attempt starts from the first part
RetryOver ==
    \E k \in DOMAIN tasks :
    /\ tasks[k].pc = "retry"
    /\ \E t \in AttemptOutcomes(tasks[k], tasks[k].attempt + 1) :
          tasks' = [tasks EXCEPT ![k] = t]
    /\ UNCHANGED <<delayed_messages, delayed_tasks, channel, persisted, files,
                   notifications>>
    /\ TaskFrame

\* bot.send_message(owner_id, ...) of lines 872 and 884: the report that
\* message `about` was sent (ok) or could not be sent
Report(about, ok) == [about |-> about, ok |-> ok]

\* the notification to the operator returned or raised: the task removes
\* the files of the message, the message from the store, persists, and
\* removes the registry entry
Notified ==
    \E k \in DOMAIN tasks :
    /\ tasks[k].pc = "notify"
    /\ tasks' = [tasks EXCEPT ![k] = Ended(tasks[k], "done")]
    /\ files' = CleanupMessageFiles(tasks[k].id)
    /\ delayed_messages' = Remove(delayed_messages, tasks[k].id)
    /\ persisted' = IF tasks[k].id \in DOMAIN delayed_messages
                    THEN SaveDelayedMessages(delayed_messages',
                                             next_message_id)
                    ELSE persisted
    /\ delayed_tasks' = Remove(delayed_tasks, tasks[k].id)
    /\ notifications' = notifications \cup {Report(tasks[k].id, tasks[k].ok)}
    /\ UNCHANGED channel
    /\ TaskFrame

\* one step of one wait task, from the await it is suspended at to the next
TaskStep ==
    \/ TaskStart
    \/ TaskWake
    \/ ChannelSendDelivers
    \/ ChannelSendRaises
    \/ PauseOver
    \/ RetryOver
    \/ Notified

\* a wait task is runnable: created and not yet run, or its sleep is over
RunnableTask(t) ==
    \/ t.pc = "created"
    \/ t.pc = "sleep" /\ AtOrBefore(t.wake, now)

\* time passes while a message is stored or can still be created; the event
\* loop resumes a runnable task before the clock reaches the next sampled
\* instant
DelayedTick ==
    /\ DOMAIN delayed_messages # {} \/ next_message_id \in MsgIds
    /\ \A k \in DOMAIN tasks : ~RunnableTask(tasks[k])
    /\ SameDate(NextInstant(now), now) \/ daysRun < MaxDays
    /\ now' = NextInstant(now)
    /\ daysRun' = IF SameDate(NextInstant(now), now) THEN daysRun
                  ELSE daysRun + 1
    /\ UNCHANGED <<opsDone, recurring, delayed>>

\* the controller is constructed at the first sampled instant of the first
\* day, with nothing persisted
InitDelayed ==
    /\ \E sd \in StartDates :
          now = [y |-> sd.y, m |-> sd.m, d |-> sd.d,
                 sec |-> DayGrid[1].sec, us |-> DayGrid[1].us]
    /\ next_target = EndTime
    /\ result = NoResult
    /\ Fresh

\* One message, created without attachments, and the edits of its fire time
FirstMessageDatetime == next_message_id = 1 /\ ProcessDelayedMessageDatetime

NextDelayed ==
    \/ FirstMessageDatetime
    \/ FinalizeDelayedMessage
    \/ ProcessEditDelayedDatetime
    \/ TaskStep
    \/ DelayedTick

SpecDelayed == InitDelayed /\ [][NextDelayed]_vars

----------------------------------------------------------------------------
\* The process dies and is started again

NoLoad == [kept |-> {}, dropped |-> {}, failed |-> FALSE]

\* the memory of a process that is not running: the values __init__ assigns
\* before it loads the file
Down ==
    /\ up' = FALSE
    /\ delayed_messages' = EmptyDict
    /\ delayed_tasks' = EmptyDict
    /\ next_message_id' = 1
    /\ flow' = NoFlow
    /\ loaded' = NoLoad
    /\ download' = NoDownload
    /\ tasks' = [k \in DOMAIN tasks |->
                    IF Live(tasks[k]) THEN Ended(tasks[k], "killed")
                    ELSE tasks[k]]

\* the process is killed between two handlers: memory and tasks are gone,
\* the file and the attachment files stay
Crash ==
    /\ up
    /\ opsDone < MaxOps
    /\ Down
    /\ opsDone' = opsDone + 1
    /\ UNCHANGED <<channel, persisted, files, notifications>>
    /\ UNCHANGED <<now, daysRun, recurring>>

\* the process is killed inside save_delayed_messages, after open(.., 'w')
\* has truncated the file and before json.dump has written it
CrashInSave ==
    /\ up
    /\ opsDone < MaxOps
    /\ DOMAIN delayed_messages # {} \/ flow # NoFlow
    /\ Down
    /\ persisted' = Unreadable
    /\ opsDone' = opsDone + 1
    /\ UNCHANGED <<channel, files, notifications>>
    /\ UNCHANGED <<now, daysRun, recurring>>

\* the tasks _restore_delayed_tasks creates for a store, and its registry
RestoredTasksNone(dm) == << >>

RestoredTasks(dm) ==
    [i \in 1..Cardinality(DOMAIN dm) |-> NewTask(KeysInOrder(dm)[i])]

RestoredRegistry(dm, base) ==
    [id \in DOMAIN dm |->
        base + (CHOOSE i \in 1..Cardinality(DOMAIN dm) :
                   KeysInOrder(dm)[i] = id)]

\* TelegramBotController.__init__: load_delayed_messages, then
\* _restore_delayed_tasks
Start ==
    /\ ~up
    /\ up' = TRUE
    /\ LET l == LoadDelayedMessages(persisted, now)
       IN  /\ next_message_id' = l.next_message_id
           /\ delayed_messages' = l.delayed_messages
           /\ files' = files \ l.removed
           /\ tasks' = tasks \o RestoredTasks(l.delayed_messages)
           /\ delayed_tasks' = RestoredRegistry(l.delayed_messages, Len(tasks))
           /\ loaded' =
                 [kept |-> DOMAIN l.delayed_messages,
                  dropped |->
                     { ParseInt(persisted.messages[i].key) :
                          i \in { j \in DOMAIN persisted.messages :
                                     /\ j < FirstMalformed(persisted)
                                     /\ Expired(persisted.messages[j], now) } },
                  failed |-> l.failed]
    /\ UNCHANGED <<channel, persisted, flow, notifications, download>>
    /\ DelayedFrame

\* time passes within the day
DelayedSameDayTick == SameDate(NextInstant(now), now) /\ DelayedTick

\* Every operation on the store during one day, with crashes and restarts;
\* a creation flow is entered while the next id is 1
NextStore ==
    \/ FirstMessageDatetime
    \/ ProcessDelayedMessageAttachments
    \/ CancelCreatingMessage
    \/ FinalizeDelayedMessage
    \/ ProcessEditDelayedText
    \/ ProcessEditDelayedDatetime
    \/ ProcessAddingAttachments
    \/ AddingDownloadDone
    \/ DeleteAttachment
    \/ DeleteDelayedMessage
    \/ TaskStep
    \/ Crash
    \/ CrashInSave
    \/ Start
    \/ DelayedSameDayTick

SpecStore == InitDelayed /\ [][NextStore]_vars

----------------------------------------------------------------------------
\* The start of the process on a file it finds

\* a record of message id as save_delayed_messages writes it on the first
\* day, and the same record damaged so that the loop of the load raises on
\* it (a missing or unparsable date_time)
LoadRecords(id) ==
    { [key |-> Str(id),
       date_time |-> IsoFormat([y |-> sd.y, m |-> sd.m, d |-> sd.d,
                                sec |-> sec, us |-> 0]),
       parts |-> parts,
       attachments |-> atts,
       well_formed |-> wf] :
         sd \in StartDates, sec \in FireSecs, parts \in Parts,
         atts \in {<< >>, <<FilePath(id, "a")>>}, wf \in BOOLEAN }

\* the files a start can find: none, one json.load cannot read, and those
\* written for no, one or two messages, each record whole or damaged
LoadFiles ==
    {NoFile, Unreadable}
    \cup { [kind |-> "file", next_message_id |-> Len(m) + 1, messages |-> m] :
             m \in {<< >>}
                   \cup { <<r>> : r \in LoadRecords(1) }
                   \cup { <<r, q>> : r \in LoadRecords(1), q \in LoadRecords(2) } }

\* the process is not running; the file and the attachment files it lists
\* are on disk, and the clock is at some instant of the first day
InitLoad ==
    /\ \E sd \in StartDates : \E i \in DOMAIN DayGrid :
          now = [y |-> sd.y, m |-> sd.m, d |-> sd.d,
                 sec |-> DayGrid[i].sec, us |-> DayGrid[i].us]
    /\ next_target = EndTime
    /\ result = NoResult
    /\ FreshRecurring
    /\ up = FALSE
    /\ delayed_messages = EmptyDict
    /\ delayed_tasks = EmptyDict
    /\ next_message_id = 1
    /\ flow = NoFlow
    /\ loaded = NoLoad
    /\ tasks = << >>
    /\ channel = << >>
    /\ notifications = {}
    /\ download = [id |-> 0, name |-> ""]
    /\ persisted \in LoadFiles
    /\ files = AttachmentFiles(persisted, DOMAIN persisted.messages)

NextLoad == Start

SpecLoad == InitLoad /\ [][NextLoad]_vars

----------------------------------------------------------------------------
\* parse_datetime_string on its own: Init draws the clock and what the
\* operator typed, Parse applies the function.  What is typed is a record
\* [format, y, m, d, sec]: "time" is HH:MM[:SS], "day_month" is DD.MM
\* HH:MM[:SS], "full" is DD.MM.YYYY HH:MM[:SS]; a format has the fields it
\* shows, the others are 0.

\* strptime and datetime.replace accept the date
ValidDate(y, m, d) == m \in 1..12 /\ d \in 1..DaysInMonth(y, m)

\* the value a parse returns, and the ValueError it raises
Parsed(t) == [raised |-> FALSE, at |-> t]

ParseRaises == [raised |-> TRUE, at |-> NoTime]

\* the day.month branch (lines 796-818): this year, or next year when that
\* is not later than the clock
ParseDayMonth(d, m, sec, mnow) ==
    IF ~ValidDate(mnow.y, m, d) THEN ParseRaises
    ELSE LET target_dt == [y |-> mnow.y, m |-> m, d |-> d, sec |-> sec,
                           us |-> 0]
         IN  IF AtOrBefore(target_dt, mnow)
             THEN IF ValidDate(mnow.y + 1, m, d)
                  THEN Parsed([target_dt EXCEPT !.y = mnow.y + 1])
                  ELSE ParseRaises
             ELSE Parsed(target_dt)

\* the full-date branch (lines 821-839): the instant that was typed
ParseFullDate(y, m, d, sec, mnow) ==
    IF ~ValidDate(y, m, d) THEN ParseRaises
    ELSE Parsed([y |-> y, m |-> m, d |-> d, sec |-> sec, us |-> 0])

\* parse_datetime_string
ParseTyped(typed, mnow) ==
    IF typed.format = "time"
    THEN Parsed(ParseDatetimeString(typed.sec, mnow))
    ELSE IF typed.format = "day_month"
    THEN ParseDayMonth(typed.d, typed.m, typed.sec, mnow)
    ELSE ParseFullDate(typed.y, typed.m, typed.d, typed.sec, mnow)

\* the dates the clock is on: the first day of a run, a 29 February and a
\* 31 December
ParseDates == StartDates \cup { [y |-> 2024, m |-> 2, d |-> 29],
                                [y |-> 2025, m |-> 12, d |-> 31] }

\* what the operator types
TypedInputs ==
    { [format |-> "time", y |-> 0, m |-> 0, d |-> 0, sec |-> sec] :
         sec \in FireSecs }
    \cup { [format |-> "day_month", y |-> 0, m |-> m, d |-> d, sec |-> sec] :
             m \in {1, 2, 12}, d \in {1, 29, 31}, sec \in FireSecs }
    \cup { [format |-> "full", y |-> y, m |-> m, d |-> d, sec |-> sec] :
             y \in {2024, 2025, 2026}, m \in {1, 2, 12}, d \in {1, 29, 31},
             sec \in FireSecs }

InitParse ==
    /\ \E pd \in ParseDates : \E i \in DOMAIN DayGrid :
          now = [y |-> pd.y, m |-> pd.m, d |-> pd.d,
                 sec |-> DayGrid[i].sec, us |-> DayGrid[i].us]
    /\ \E typed \in TypedInputs :
          result = [kind |-> "typed", typed |-> typed, raised |-> FALSE,
                    at |-> NoTime]
    /\ next_target = EndTime
    /\ Fresh

Parse ==
    /\ result.kind = "typed"
    /\ LET r == ParseTyped(result.typed, now)
       IN  result' = [kind |-> "parsed", typed |-> result.typed,
                      raised |-> r.raised, at |-> r.at]
    /\ UNCHANGED obs
    /\ UNCHANGED delayed
    /\ UNCHANGED <<now, daysRun, scheduler_running, was_sent_today,
                   is_mark_enabled, wait_day, message, next_target, locked,
                   pc, wake, moscow_now, sendAt, sendsToday, fired, entry,
                   deferUntil, cleared, clean, cancelled, armed, opsDone>>

NextParse == Parse

SpecParse == InitParse /\ [][NextParse]_vars

----------------------------------------------------------------------------
\* save_delayed_messages followed by load_delayed_messages: Init draws a
\* store, a next id and the clock; result keeps what was in memory before
\* the save, with the created_at of every message, what the file holds for
\* it and what the load makes of that; the file carries created_at through
\* the same two conversions as date_time (lines 109 and 150)

\* the messages the store may hold under one id
TripMessages(id) ==
    { [date_time |-> dt, parts |-> parts, attachments |-> atts] :
         dt \in { At(AddDays([y |-> sd.y, m |-> sd.m, d |-> sd.d,
                              sec |-> 0, us |-> 0], k), sec) :
                     sd \in StartDates, k \in {0, 1}, sec \in FireSecs },
         parts \in Parts,
         atts \in { << >>, <<FilePath(id, "a")>>,
                    <<FilePath(id, "b"), FilePath(id, "a")>> } }

\* the stores over the ids of MsgIds
TripStores ==
    UNION { { dm \in [ids -> UNION { TripMessages(id) : id \in ids }] :
                \A id \in ids : dm[id] \in TripMessages(id) } :
            ids \in SUBSET MsgIds }

InitTrip ==
    /\ \E sd \in StartDates : \E i \in DOMAIN DayGrid :
          now = [y |-> sd.y, m |-> sd.m, d |-> sd.d,
                 sec |-> DayGrid[i].sec, us |-> DayGrid[i].us]
    /\ next_target = EndTime
    /\ FreshRecurring
    /\ delayed_messages \in TripStores
    /\ next_message_id \in 1..3
    /\ \A id \in DOMAIN delayed_messages : id < next_message_id
    /\ \E created \in [DOMAIN delayed_messages ->
                          { [now EXCEPT !.sec = DayGrid[1].sec, !.us = u] :
                               u \in {0, 1} }] :
          result = [kind |-> "store", store |-> delayed_messages,
                    next_message_id |-> next_message_id,
                    created_at |-> created, file_created_at |-> created,
                    loaded_created_at |-> created]
    /\ delayed_tasks = EmptyDict
    /\ flow = NoFlow
    /\ loaded = NoLoad
    /\ tasks = << >>
    /\ channel = << >>
    /\ notifications = {}
    /\ download = NoDownload
    /\ persisted = NoFile
    /\ files = UNION { Range(delayed_messages[id].attachments) :
                         id \in DOMAIN delayed_messages }
    /\ up = TRUE

TripFrame ==
    /\ UNCHANGED obs
    /\ UNCHANGED <<delayed_tasks, tasks, channel, flow, up, loaded,
                   notifications, download>>
    /\ UNCHANGED <<now, daysRun, scheduler_running, was_sent_today,
                   is_mark_enabled, wait_day, message, next_target, locked,
                   pc, wake, moscow_now, sendAt, sendsToday, fired, entry,
                   deferUntil, cleared, clean, cancelled, armed, opsDone>>

\* save_delayed_messages
TripSave ==
    /\ result.kind = "store"
    /\ persisted' = SaveDelayedMessages(delayed_messages, next_message_id)
    /\ result' = [result EXCEPT
                     !.kind = "saved",
                     !.file_created_at =
                        [id \in DOMAIN result.store |->
                            IsoFormat(result.created_at[id])]]
    /\ UNCHANGED <<delayed_messages, next_message_id, files>>
    /\ TripFrame

\* load_delayed_messages into a controller just constructed
TripLoad ==
    /\ result.kind = "saved"
    /\ LET l == LoadDelayedMessages(persisted, now)
       IN  /\ delayed_messages' = l.delayed_messages
           /\ next_message_id' = l.next_message_id
           /\ files' = files \ l.removed
           /\ result' = [result EXCEPT
                            !.kind = "loaded",
                            !.loaded_created_at =
                               [id \in DOMAIN l.delayed_messages |->
                                   FromIsoFormat(result.file_created_at[id])]]
    /\ UNCHANGED persisted
    /\ TripFrame

NextTrip == TripSave \/ TripLoad

SpecTrip == InitTrip /\ [][NextTrip]_vars

----------------------------------------------------------------------------
\* The sender's splitters (src/src/discord_bot/bot.py): a text is a sequence
\* of characters

\* the max_length the text splitter is called with in the model
SplitLimit == 3
\* the longest text drawn
MaxTextLen == 7

Space == " "
Newline == "\n"
Letters == {"a"}
Whitespace == {Space, Newline}

\* str.split(c): the pieces between the occurrences of c, at least one
RECURSIVE SplitOn(_, _)
SplitOn(s, c) ==
    IF s = << >> THEN << << >> >>
    ELSE LET r == SplitOn(Tail(s), c)
         IN  IF Head(s) = c THEN << << >> >> \o r
             ELSE << <<Head(s)>> \o Head(r) >> \o Tail(r)

\* str.rstrip()
RECURSIVE RStrip(_)
RStrip(s) ==
    IF s = << >> THEN s
    ELSE IF s[Len(s)] \in Whitespace THEN RStrip(SubSeq(s, 1, Len(s) - 1))
    ELSE s

\* append_part: the part without its trailing whitespace is appended unless
\* nothing is left of it
AppendPart(parts, part) ==
    IF RStrip(part) # << >> THEN Append(parts, RStrip(part)) ELSE parts

\* the slices of max characters cut from the front of a word longer than
\* max, and what is left of it (1..max characters)
Slices(word, max) ==
    [i \in 1..((Len(word) - 1) \div max) |->
        SubSeq(word, (i - 1) * max + 1, i * max)]

Remaining(word, max) ==
    SubSeq(word, ((Len(word) - 1) \div max) * max + 1, Len(word))

\* one iteration of the loop over the words of a long line
WordStep(st, word, max) ==
    LET candidate == word \o <<Space>>
        st1 == IF Len(st.temp_line \o candidate) > max /\ st.temp_line # << >>
               THEN [parts |-> AppendPart(st.parts, st.temp_line),
                     temp_line |-> << >>]
               ELSE st
    IN  IF Len(candidate) <= max
        THEN [st1 EXCEPT !.temp_line = st1.temp_line \o candidate]
        ELSE [parts |-> st1.parts \o Slices(word, max),
              temp_line |-> Remaining(word, max) \o <<Space>>]

RECURSIVE WordLoop(_, _, _)
WordLoop(st, words, max) ==
    IF words = << >> THEN st
    ELSE WordLoop(WordStep(st, Head(words), max), Tail(words), max)

\* one iteration of the loop over the lines of the text
LineStep(st, line, max) ==
    IF Len(line) > max
    THEN LET flushed == IF st.current_part # << >>
                        THEN AppendPart(st.parts, st.current_part)
                        ELSE st.parts
             w == WordLoop([parts |-> flushed, temp_line |-> << >>],
                           SplitOn(line, Space), max)
         IN  [parts |-> w.parts, current_part |-> w.temp_line]
    ELSE IF Len(st.current_part \o line \o <<Newline>>) <= max
    THEN [st EXCEPT !.current_part = st.current_part \o line \o <<Newline>>]
    ELSE [parts |-> IF st.current_part # << >>
                    THEN AppendPart(st.parts, st.current_part)
                    ELSE st.parts,
          current_part |-> line \o <<Newline>>]

RECURSIVE LineLoop(_, _, _)
LineLoop(st, lines, max) ==
    IF lines = << >> THEN st
    ELSE LineLoop(LineStep(st, Head(lines), max), Tail(lines), max)

\* _split_long_text(text, max_length)
SplitLongText(text, max) ==
    IF Len(text) <= max THEN <<text>>
    ELSE LET st == LineLoop([parts |-> << >>, current_part |-> << >>],
                            SplitOn(text, Newline), max)
             parts == IF st.current_part # << >>
                      THEN AppendPart(st.parts, st.current_part)
                      ELSE st.parts
         IN  IF parts # << >> THEN parts ELSE <<SubSeq(text, 1, max)>>

\* the texts drawn: every text over a letter, the space and the newline that
\* is longer than the limit, begins and ends with a letter (the handlers
\* strip the text they store) and has at most MaxTextLen characters
RECURSIVE TextsOfLen(_)
TextsOfLen(n) ==
    IF n = 0 THEN { << >> }
    ELSE { <<c>> \o t : c \in Letters \cup Whitespace, t \in TextsOfLen(n - 1) }

LongTexts ==
    { t \in UNION { TextsOfLen(n) : n \in (SplitLimit + 1)..MaxTextLen } :
         t[1] \in Letters /\ t[Len(t)] \in Letters }

InitSplit ==
    /\ \E t \in LongTexts : result = [kind |-> "text", text |-> t]
    /\ \E sd \in StartDates :
          now = [y |-> sd.y, m |-> sd.m, d |-> sd.d,
                 sec |-> DayGrid[1].sec, us |-> DayGrid[1].us]
    /\ next_target = EndTime
    /\ Fresh

SplitCall ==
    /\ result.kind = "text"
    /\ result' = [kind |-> "split", text |-> result.text,
                  parts |-> SplitLongText(result.text, SplitLimit)]
    /\ UNCHANGED obs
    /\ UNCHANGED delayed
    /\ UNCHANGED <<now, daysRun, scheduler_running, was_sent_today,
                   is_mark_enabled, wait_day, message, next_target, locked,
                   pc, wake, moscow_now, sendAt, sendsToday, fired, entry,
                   deferUntil, cleared, clean, cancelled, armed, opsDone>>

NextSplit == SplitCall

SpecSplit == InitSplit /\ [][NextSplit]_vars

----------------------------------------------------------------------------
\* send_message_with_files_to_channel (src/src/discord_bot/bot.py): one call
\* for a message with attachments.  The call is a record shaped like a wait
\* task, [id, pc, wake, parts, chunk, attempt, ok, err]: parts is the number
\* of channel.send calls one attempt makes, chunk the one it is at, pc
\* "notify" means the call has returned.  What the channel receives is a
\* record [content, batch, files, attempt]: the number of the text part (0:
\* none), the number of the file group (0: none), the files of the group
\* that were found on disk, and the attempt that sent it.

\* max_per_message of _split_files; the sender passes MAX_FILES_PER_MESSAGE,
\* which is 10: the groups are cut the same way for this smaller number
FilesLimit == 2

\* the most attachments a message is given
MaxFiles == 5

\* names of the uploaded files; two uploads of one name to one message get
\* one path
AttachmentNames == {"a", "b"}

SplitFilesDropsTail(file_paths, max_per_message) ==
    [g \in 1..(Len(file_paths) \div max_per_message) |->
        SubSeq(file_paths, (g - 1) * max_per_message + 1,
               g * max_per_message)]

\* _split_files: the list whole when it is short enough (no group for an
\* empty list), else slices of max_per_message paths
SplitFiles(file_paths, max_per_message) ==
    IF Len(file_paths) <= max_per_message
    THEN IF file_paths # << >> THEN <<file_paths>> ELSE << >>
    ELSE [g \in 1..((Len(file_paths) + max_per_message - 1)
                       \div max_per_message) |->
            SubSeq(file_paths, (g - 1) * max_per_message + 1,
                   IF g * max_per_message < Len(file_paths)
                   THEN g * max_per_message ELSE Len(file_paths))]

\* [discord.File(p) for p in group if Path(p).exists()]
Existing(group) == SelectSeq(group, LAMBDA p : p \in files)

\* the channel.send calls of one attempt, in order: the first text part
\* with the first group, the other groups, the other text parts
SendsOf(text_parts, file_groups) ==
    <<[content |-> 1, batch |-> IF file_groups # << >> THEN 1 ELSE 0]>>
    \o [g \in 1..(Len(file_groups) - 1) |-> [content |-> 0, batch |-> g + 1]]
    \o [i \in 1..(text_parts - 1) |-> [content |-> i + 1, batch |-> 0]]

\* the attachment lists of a stored message
FileLists ==
    UNION { [1..n -> { FilePath(1, name) : name \in AttachmentNames }] :
               n \in 1..MaxFiles }

\* schedule_delayed_message is about to call the send for message 1, whose
\* attachments are recorded; a file is missing when another attachment of
\* the same path was deleted
InitFiles ==
    /\ \E sd \in StartDates :
          now = [y |-> sd.y, m |-> sd.m, d |-> sd.d,
                 sec |-> DayGrid[1].sec, us |-> DayGrid[1].us]
    /\ next_target = EndTime
    /\ FreshRecurring
    /\ \E file_paths \in FileLists : \E text_parts \in Parts :
          /\ result = [kind |-> "send", text_parts |-> text_parts,
                       file_paths |-> file_paths, call |-> NewTask(1)]
          /\ files \in SUBSET Range(file_paths)
    /\ delayed_messages = EmptyDict
    /\ delayed_tasks = EmptyDict
    /\ next_message_id = 2
    /\ flow = NoFlow
    /\ loaded = NoLoad
    /\ tasks = << >>
    /\ channel = << >>
    /\ notifications = {}
    /\ download = NoDownload
    /\ persisted = NoFile
    /\ up = TRUE

FilesFrame ==
    /\ UNCHANGED obs
    /\ UNCHANGED <<delayed_messages, delayed_tasks, next_message_id, tasks,
                   persisted, files, flow, up, loaded, notifications,
                   download>>
    /\ UNCHANGED <<now, daysRun, scheduler_running, was_sent_today,
                   is_mark_enabled, wait_day, message, next_target, locked,
                   pc, wake, moscow_now, sendAt, sendsToday, fired, entry,
                   deferUntil, cleared, clean, cancelled, armed, opsDone>>

\* the call, up to the first await or return of its first attempt
WithFilesStart ==
    /\ result.kind = "send"
    /\ result.call.pc = "created"
    /\ LET file_groups == SplitFiles(result.file_paths, FilesLimit)
           sends == SendsOf(result.text_parts, file_groups)
       IN  \E t \in AttemptOutcomes([result.call EXCEPT !.parts = Len(sends)],
                                    0) :
              result' = [result EXCEPT !.call = t]
    /\ UNCHANGED channel
    /\ FilesFrame

\* channel.send delivers: the next send follows after the pause between
\* messages, the last one ends the call with True
WithFilesDelivers ==
    /\ result.kind = "send"
    /\ result.call.pc = "send"
    /\ LET t == result.call
           file_groups == SplitFiles(result.file_paths, FilesLimit)
           send == SendsOf(result.text_parts, file_groups)[t.chunk]
       IN  /\ channel' =
                Append(channel,
                       [content |-> send.content, batch |-> send.batch,
                        files |-> IF send.batch # 0
                                  THEN Existing(file_groups[send.batch])
                                  ELSE << >>,
                        attempt |-> t.attempt])
           /\ result' = [result EXCEPT !.call =
                            IF t.chunk < t.parts
                            THEN [t EXCEPT !.chunk = t.chunk + 1]
                            ELSE Returned(t, TRUE, "none")]
    /\ FilesFrame

\* channel.send raises: a connection error or another one
WithFilesRaises ==
    /\ result.kind = "send"
    /\ result.call.pc = "send"
    /\ \/ result' = [result EXCEPT !.call = AfterConnectionError(result.call)]
       \/ result' = [result EXCEPT !.call =
                        Returned(result.call, FALSE, "http")]
    /\ UNCHANGED channel
    /\ FilesFrame

\* the retry delay is over: the next attempt starts from the first send
WithFilesRetryOver ==
    /\ result.kind = "send"
    /\ result.call.pc = "retry"
    /\ \E t \in AttemptOutcomes(result.call, result.call.attempt + 1) :
          result' = [result EXCEPT !.call = t]
    /\ UNCHANGED channel
    /\ FilesFrame

NextFiles ==
    \/ WithFilesStart
    \/ WithFilesDelivers
    \/ WithFilesRaises
    \/ WithFilesRetryOver

SpecFiles == InitFiles /\ [][NextFiles]_vars

----------------------------------------------------------------------------
\* Claims

\* today's window is over and the task is not waiting to be resumed
WindowOver == Before(At(now, EndTime), now) /\ ~Runnable

\* window start of the first weekday after t's date
RECURSIVE NextWeekdayStartFrom(_)
NextWeekdayStartFrom(c) ==
    IF Weekday(c) < 5 THEN At(c, StartTime) ELSE NextWeekdayStartFrom(AddDay(c))

NextWeekdayStart(t) == NextWeekdayStartFrom(AddDay(t))

\* a send attempt lies on a weekday, its time of day (to the second) inside
\* [window.start, window.end]
SendInsideWindow ==
    /\ Weekday(sendAt) < 5
    /\ StartTime <= sendAt.sec
    /\ sendAt.sec <= EndTime

C2_SendInWindow == sendAt # NoTime => SendInsideWindow

\* C3: from the moment a deferred day is set until its target datetime, the
\* scheduler starts no send.
C3_NoSendWhileDeferred ==
    [][ (pc' = "sending" /\ pc # "sending")
          => ~(deferUntil # NoTime /\ Before(now, deferUntil)) ]_vars

\* C4: the deferred wait the scheduler starts ends at the first occurrence
\* of the deferred day, at window start, after the moment it was set.
C4_DeferredWaitTarget ==
    [][ (wait_day # 0 /\ wait_day' = 0 /\ pc' = "sleep_defer")
          => wake' = deferUntil ]_vars

\* C5: for every deferred day 1..31 and every current time the target
\* computation returns, never raising, a valid datetime after the current
\* time, on that day of the month, at window start.
C5_TargetValid ==
    result.kind = "target" =>
      /\ ~result.raised
      /\ Before(now, result.at)
      /\ result.at.d = wait_day
      /\ result.at.d <= DaysInMonth(result.at.y, result.at.m)
      /\ result.at.sec = StartTime /\ result.at.us = 0

\* C6: the target is in the current month when the day is later than today
\* and exists in this month, or is today with window start still ahead; it
\* is that day of the next month (the year rolling after December) when the
\* day is earlier than today, or is today with window start passed.
C6_TargetMonth ==
    result.kind = "target" =>
      LET D == wait_day
          ahead == Before(now, At(now, StartTime))
          thisMonth == \/ D > now.d /\ D <= DaysInMonth(now.y, now.m)
                       \/ D = now.d /\ ahead
          nextMonth == \/ D < now.d
                       \/ D = now.d /\ ~ahead
          ny == IF now.m = 12 THEN now.y + 1 ELSE now.y
          nm == IF now.m = 12 THEN 1 ELSE now.m + 1
      IN  /\ thisMonth =>
                /\ ~result.raised
                /\ result.at = [y |-> now.y, m |-> now.m, d |-> D,
                                sec |-> StartTime, us |-> 0]
          /\ nextMonth =>
                /\ ~result.raised
                /\ result.at = [y |-> ny, m |-> nm, d |-> D,
                                sec |-> StartTime, us |-> 0]

\* C7: once the deferred day has been cleared, with sending enabled ever
\* since, every weekday window that opens after the clear sees a send.
C7_ResumesAfterClear ==
    ( /\ cleared = "earlier" /\ is_mark_enabled
      /\ armed /\ pc # "done"
      /\ Weekday(now) < 5 /\ WindowOver )
      => sendsToday >= 1

\* C8: a fire time reached while sending is disabled sends nothing, sets
\* sent_today and regenerates next_fire_time for the next window.
C8_SkipSetsSentToday ==
    [][ (fired' = "skipped" /\ fired # "skipped")
          => /\ sendAt' = sendAt
             /\ was_sent_today'
             /\ next_target' \in { x \in SampleSecs :
                                     /\ StartTime + 3 <= x
                                     /\ x <= EndTime } ]_vars

C10_ErrorCooldown ==
    /\ [](pc = "done" => cancelled)
    /\ [](pc = "cooldown" => wake = AddSeconds(moscow_now, 300))
    /\ [][ (pc = "cooldown" /\ pc' \notin {"cooldown", "done"})
             => /\ AtOrBefore(wake, now)
                /\ moscow_now' = now
                /\ ~was_sent_today' ]_vars
    /\ [][ (pc = "cooldown" /\ pc' = "cooldown" /\ wake' # wake)
             => /\ AtOrBefore(wake, now)
                /\ wake' = AddSeconds(now, 300) ]_vars

\* the deferral target raised inside an iteration and the task is in its
\* cooldown
C10_Witness ==
    /\ pc = "cooldown" /\ ~cancelled
    /\ wait_day # 0
    /\ CalculateWaitUntilTargetDate(wait_day, moscow_now).raised
    /\ wake = AddSeconds(moscow_now, 300)

\* C11: cancelling the task while it is suspended at any await (in-window
\* wait, next-weekday wait, deferred wait, cooldown, the send call) ends
\* it: no cooldown and restart follows, and no send is started afterwards.
C11_CancelTerminates ==
    /\ [](cancelled => (pc = "done" /\ wake = NoTime))
    /\ [][ (~cancelled /\ cancelled')
             => /\ pc \in {"start", "sleep_fire", "sleep_next", "sleep_defer",
                           "cooldown", "sending"}
                /\ pc' = "done"
                /\ sendAt' = sendAt /\ sendsToday' = sendsToday ]_vars
    /\ [][ cancelled
             => /\ pc' = "done"
                /\ sendsToday' <= sendsToday
                /\ sendAt' \in {sendAt, NoTime}
                /\ fired' = fired ]_vars

\* the task was cancelled inside the send call of Friday, and the window of
\* the following Monday has passed without a send
C11_Witness ==
    /\ cancelled /\ pc = "done" /\ fired = "sending"
    /\ daysRun > 0 /\ Weekday(now) = 0 /\ WindowOver
    /\ sendsToday = 0

\* C12: for every lower bound L and window end E the pick returns, never
\* raising: for L <= E a time t with L <= t <= E, and t >= L + 3 s whenever
\* L + 3 s <= E; for L > E exactly E.
C12_PickInRange ==
    result.kind = "pick" =>
      /\ ~result.raised
      /\ result.start <= result.end =>
            /\ result.start <= result.t /\ result.t <= result.end
            /\ (result.start + 3 <= result.end) => result.t >= result.start + 3
      /\ result.start > result.end => result.t = result.end

\* C13: set_next_target_time_once(t) overwrites next_fire_time with t
\* exactly when window.start <= t <= window.end; for a t outside the window
\* or a value that is not a time it raises and leaves next_fire_time, the
\* locked floor, enabled, the deferred day and sent_today as they were.
C13_OverrideValidated ==
    [][ (result'.kind = "override") =>
          LET t == result'.t
              inside == t # NoSec /\ 37800 <= t /\ t <= 43200
          IN  /\ inside => (~result'.raised /\ next_target' = t)
              /\ ~inside => (result'.raised /\ next_target' = next_target)
              /\ locked' = locked
              /\ is_mark_enabled' = is_mark_enabled
              /\ wait_day' = wait_day
              /\ was_sent_today' = was_sent_today ]_vars

\* a call with 12:00:01, one second past the window, raised and changed
\* nothing
C13_Witness ==
    /\ result.kind = "override"
    /\ result.t = EndTime + 1 /\ result.raised
    /\ next_target # EndTime + 1

\* C14: a manual fire time t accepted on a weekday before the day's send,
\* with t later than the current time, while the task is waiting (sending
\* enabled, no deferral, no error): the day's send is made at time of day
\* t, whatever fire time the task was sleeping towards.
C14_OverrideFiresAtT ==
    (clean /\ overridden /\ pc = "sending")
      => (SameDate(sendAt, now) /\ sendAt.sec = next_target)

\* C15: after every send check that fires (sent, failed, or skipped because
\* disabled) next_fire_time is a fresh pick with floor window.start, that
\* is inside [window.start + 3 s, window.end]: a manual fire time does not
\* carry over to the following send check.
C15_RegeneratedAfterFire ==
    [][ ( \/ pc = "sending" /\ pc' = "sleep_next"
          \/ fired' = "skipped"
               /\ (fired # "skipped" \/ moscow_now' # moscow_now) )
          => /\ 37803 <= next_target' /\ next_target' <= 43200
             /\ ~overridden' ]_vars

\* a manual fire time of 10:30:00 was used for a send and replaced
C15_Witness ==
    /\ fired \in {"sent", "failed"} /\ pc = "sleep_next"
    /\ sendAt.sec = StartTime /\ SameDate(sendAt, now)
    /\ next_target >= StartTime + WORK_DAY_END_SECOND_SHIFT

\* C16: while the task waits in the window for a committed fire time T
\* (the locked floor), every call of regenerate_next_target_time returns
\* and leaves a next_fire_time not earlier than T and not later than
\* window.end, also after a manual fire time earlier than T.
C16_RegenerateAboveFloor ==
    result.kind = "regenerate" =>
      /\ ~result.raised
      /\ result.floor <= next_target
      /\ next_target <= EndTime

\* C17: right after a recurring send on a weekday (enabled, no deferral
\* set) the next-fire query returns the date of the next weekday with the
\* regenerated next_fire_time, never today's date, whether the new pick is
\* earlier or later than the current time of day.
C17_QueryAfterSend ==
    ( /\ pc = "sleep_next" /\ fired \in {"sent", "failed"}
      /\ SameDate(sendAt, now) /\ Weekday(now) < 5
      /\ is_mark_enabled /\ wait_day = 0 )
      => /\ NextTargetTimeQuery(now).kind = "at"
         /\ ~SameDate(NextTargetTimeQuery(now).at, now)
         /\ NextTargetTimeQuery(now).at
               = At(NextWeekdayStart(now), next_target)

\* Friday's send was made and the new pick is later than the current time
C17_Witness ==
    /\ pc = "sleep_next" /\ fired = "sent"
    /\ SameDate(sendAt, now) /\ Weekday(now) = 4
    /\ is_mark_enabled /\ wait_day = 0
    /\ next_target > now.sec

\* C18: when the next-fire query returns a date and time and no control
\* operation follows, the next send attempt is made exactly then, in every
\* scheduler state.  On the states and steps of the task: the instant the
\* query reports while the task sleeps is not earlier than the task's
\* wake-up (it cannot send before), and a send attempt is started at the
\* instant the query reported just before it.
C18_QueryIsNextSend ==
    /\ []( ( /\ pc \in {"sleep_next", "sleep_defer", "sleep_fire", "cooldown"}
             /\ NextTargetTimeQuery(now).kind = "at" )
             => AtOrBefore(wake, NextTargetTimeQuery(now).at) )
    /\ [][ ( /\ pc' = "sending" /\ pc # "sending"
             /\ NextTargetTimeQuery(now).kind = "at" )
             => NextTargetTimeQuery(now).at = At(now, now.sec) ]_vars

\* C19: the recurring send uses the state in effect at the instant the fire
\* time is reached, not the state at the start of the wait: the text
\* handed to the send is the text set then, and the message is sent
\* exactly when sending is enabled then.
C19_SendReadsCurrentState ==
    /\ [][ (pc' = "sending" /\ pc # "sending")
             => (is_mark_enabled /\ sentText' = message) ]_vars
    /\ [][ (fired' = "skipped"
               /\ (fired # "skipped" \/ moscow_now' # moscow_now))
             => (~is_mark_enabled /\ sentText' = sentText
                 /\ sendAt' = sendAt) ]_vars

\* the text was changed during the in-window wait and the new text was sent
C19_Witness ==
    /\ fired = "sent" /\ entry = "future"
    /\ waitText # NoText /\ sentText # NoText
    /\ sentText # waitText

\* C20: a delayed message whose fire time is edited is delivered at most
\* once in total: whatever await the old wait task is suspended at when the
\* edit cancels it, the parts of one message that reach the channel all come
\* from one and the same task
C20_DeliveredOnce ==
    \A i \in DOMAIN channel : \A j \in DOMAIN channel :
       channel[i].id = channel[j].id => channel[i].task = channel[j].task

\* the live wait tasks of message id in a sequence of tasks
LiveTasksOf(ts, id) == { k \in DOMAIN ts : ts[k].id = id /\ Live(ts[k]) }

\* C21: after process start, every persisted message whose fire time is
\* later than the load time is in the store with its text, fire time and
\* attachments as persisted and has exactly one live wait task, the
\* registered one; a registered task that sleeps sleeps until the fire
\* time of its message and calls the send at that instant.
C21_FutureRestored ==
    /\ [][ (~up /\ up')
             => \A i \in DOMAIN persisted.messages :
                   LET rec == persisted.messages[i]
                       id == ParseInt(rec.key)
                   IN  Before(now, FromIsoFormat(rec.date_time))
                       => /\ id \in DOMAIN delayed_messages'
                          /\ delayed_messages'[id] =
                                [date_time |-> FromIsoFormat(rec.date_time),
                                 parts |-> rec.parts,
                                 attachments |-> rec.attachments]
                          /\ id \in DOMAIN delayed_tasks'
                          /\ LiveTasksOf(tasks', id) = {delayed_tasks'[id]} ]_vars
    /\ [](\A id \in DOMAIN delayed_tasks :
             (id \in DOMAIN delayed_messages
                 /\ tasks[delayed_tasks[id]].pc = "sleep")
             => tasks[delayed_tasks[id]].wake = delayed_messages[id].date_time)
    /\ [][ \A k \in DOMAIN tasks :
              (tasks[k].pc = "sleep" /\ tasks'[k].pc \in {"send", "retry", "notify"})
              => now = tasks[k].wake ]_vars

\* the process was killed and started again, nothing else was done, and the
\* restored task of a message with an attachment has reached its send
C21_Witness ==
    /\ up /\ opsDone = 2
    /\ \E id \in loaded.kept :
          /\ id \in DOMAIN delayed_messages
          /\ delayed_messages[id].attachments # << >>
          /\ id \in DOMAIN delayed_tasks
          /\ delayed_tasks[id] > 1
          /\ tasks[delayed_tasks[id]].pc = "send"

\* the parts of message id that have reached the channel
SentOf(ch, id) == { i \in DOMAIN ch : ch[i].id = id }

\* C22: a persisted message whose fire time is at or before the load time
\* is dropped at process start: it is not in the store, it has no wait
\* task and no registry entry, the files of its attachments are removed,
\* and nothing of it is sent while the process runs.
C22_ExpiredDropped ==
    /\ [][ (~up /\ up')
             => \A i \in DOMAIN persisted.messages :
                   LET rec == persisted.messages[i]
                       id == ParseInt(rec.key)
                   IN  AtOrBefore(FromIsoFormat(rec.date_time), now)
                       => /\ id \notin DOMAIN delayed_messages'
                          /\ id \notin DOMAIN delayed_tasks'
                          /\ LiveTasksOf(tasks', id) = {}
                          /\ Range(rec.attachments) \cap files' = {}
                          /\ id \in loaded'.dropped ]_vars
    /\ [][ \A id \in loaded.dropped :
              SentOf(channel', id) = SentOf(channel, id) ]_vars

\* a message with an attachment was dropped at start, and time has passed
\* since
C22_Witness ==
    /\ up
    /\ \E id \in loaded.dropped :
          \E i \in DOMAIN persisted.messages :
             /\ ParseInt(persisted.messages[i].key) = id
             /\ persisted.messages[i].attachments # << >>
             /\ Before(FromIsoFormat(persisted.messages[i].date_time), now)

\* C23: whenever the process is between two handlers and a file has been
\* written, the file holds what save_delayed_messages writes for the store
\* and the next id in memory: the same ids, texts, fire times, attachment
\* lists and next id.
C23_PersistedEqualsStore ==
    (up /\ persisted.kind = "file")
    => persisted = SaveDelayedMessages(delayed_messages, next_message_id)

\* C24: the id a finalized creation flow stores its message under is not
\* in the store and is greater than the id of every message created
\* before, whatever flows, deletions, fires and restarts came between
\* (every message created before has a task, running or ended, in tasks).
C24_IdsIncrease ==
    [][ (up /\ up' /\ flow # NoFlow /\ flow' = NoFlow
            /\ Len(tasks') = Len(tasks) + 1)
          => /\ flow.id \notin DOMAIN delayed_messages
             /\ \A k \in DOMAIN tasks : tasks[k].id < flow.id ]_vars

\* the send call of a task is under way
InSendCall(t) == t.pc \in {"send", "pause", "retry"}

\* the records of message id in file p
RecordsOf(p, id) == { i \in DOMAIN p.messages : ParseInt(p.messages[i].key) = id }

\* C25: a wait task that has called the send and is not cancelled goes on
\* to the notification whether the send succeeds or fails, and from there
\* to its end; when it ends the message is not in the store, not in the
\* registry and not in the file, none of the files of its attachments is
\* left, no wait task of the message is alive, and the ended task does
\* nothing more.
C25_RemovedAfterSend ==
    /\ [][ \A k \in DOMAIN tasks :
              /\ (InSendCall(tasks[k]) /\ Live(tasks'[k]))
                 => (InSendCall(tasks'[k]) \/ tasks'[k].pc = "notify")
              /\ (tasks[k].pc = "notify" /\ Live(tasks'[k]))
                 => tasks'[k].pc \in {"notify", "done"}
              /\ tasks[k].pc = "done" => tasks'[k] = tasks[k] ]_vars
    /\ [][ \A k \in DOMAIN tasks :
              (tasks[k].pc = "notify" /\ tasks'[k].pc = "done")
              => LET id == tasks[k].id
                 IN  /\ id \in DOMAIN delayed_messages
                     /\ id \notin DOMAIN delayed_messages'
                     /\ id \notin DOMAIN delayed_tasks'
                     /\ persisted'.kind = "file"
                     /\ RecordsOf(persisted', id) = {}
                     /\ Range(delayed_messages[id].attachments) \cap files' = {}
                     /\ LiveTasksOf(tasks', id) = {} ]_vars

\* the send of a message failed without a part delivered, its task has
\* ended, and the message is gone from the store, the registry and the file
C25_Witness ==
    \E k \in DOMAIN tasks :
       /\ tasks[k].pc = "done"
       /\ SentOf(channel, tasks[k].id) = {}
       /\ tasks[k].id \notin DOMAIN delayed_messages
       /\ tasks[k].id \notin DOMAIN delayed_tasks
       /\ persisted.kind = "file" /\ persisted.messages = << >>

\* a step of the running process that removes message id from the store
\* and is not the end of a wait task: the delete handler
DeleteStep(id) ==
    /\ up /\ up'
    /\ id \in DOMAIN delayed_messages
    /\ id \notin DOMAIN delayed_messages'
    /\ ~ \E k \in DOMAIN tasks : tasks[k].pc = "notify" /\ tasks'[k].pc = "done"

\* C26: the delete of a message leaves no live wait task of it and no
\* registry entry, removes the files of its attachments and its record,
\* and writes the file without it; a cancelled task, whatever await it was
\* suspended at, never takes another step, and no part of a message that
\* is not in the store reaches the channel.
C26_DeleteCancels ==
    /\ [][ \A id \in MsgIds :
              DeleteStep(id)
              => /\ LiveTasksOf(tasks', id) = {}
                 /\ id \notin DOMAIN delayed_tasks'
                 /\ Range(delayed_messages[id].attachments) \cap files' = {}
                 /\ persisted' = SaveDelayedMessages(delayed_messages',
                                                     next_message_id')
                 /\ RecordsOf(persisted', id) = {} ]_vars
    /\ [][ \A k \in DOMAIN tasks :
              tasks[k].pc = "cancelled" => tasks'[k] = tasks[k] ]_vars
    /\ [][ \A id \in MsgIds :
              (id \notin DOMAIN delayed_messages
                  /\ id \notin DOMAIN delayed_messages')
              => SentOf(channel', id) = SentOf(channel, id) ]_vars

\* the only task of a message was cancelled by a delete after it had
\* delivered one part; the store, the registry and the file are empty
C26_Witness ==
    /\ up
    /\ Len(tasks) = 1 /\ tasks[1].pc = "cancelled"
    /\ Len(channel) = 1
    /\ delayed_messages = EmptyDict /\ delayed_tasks = EmptyDict
    /\ persisted.kind = "file" /\ persisted.messages = << >>

\* C27: whenever the process is between two handlers, every stored message
\* has exactly one live wait task and that task is the one registered
\* under its id, the registry has no entry for an id that is not stored,
\* and every live wait task is the registered task of its id.
C27_RegistryAgrees ==
    up => /\ \A id \in DOMAIN delayed_messages :
                /\ id \in DOMAIN delayed_tasks
                /\ delayed_tasks[id] \in DOMAIN tasks
                /\ LiveTasksOf(tasks, id) = {delayed_tasks[id]}
          /\ DOMAIN delayed_tasks \subseteq DOMAIN delayed_messages
          /\ \A k \in DOMAIN tasks :
                Live(tasks[k])
                => /\ tasks[k].id \in DOMAIN delayed_tasks
                   /\ delayed_tasks[tasks[k].id] = k

\* the fire time of a restored message was edited: its first task was
\* killed with the process, its restored task was cancelled by the edit,
\* and the task of the edit is the registered one
C27_Witness ==
    /\ up
    /\ \E id \in DOMAIN delayed_messages :
          /\ id \in loaded.kept
          /\ id \in DOMAIN delayed_tasks
          /\ delayed_tasks[id] = 3
          /\ tasks[1].pc = "killed"
          /\ tasks[2].pc = "cancelled"
          /\ Live(tasks[3])

\* what a report about the recurring message would be about
Recurring == 0

\* C28: every send failure is reported to the operator: when the send of
\* the recurring message has failed a failure report about it has been
\* handed to the operator's chat, and a wait task whose send failed hands
\* over a failure report about its message before it ends.
C28_FailureNotified ==
    /\ [](fired = "failed" => Report(Recurring, FALSE) \in notifications)
    /\ [][ \A k \in DOMAIN tasks :
              (tasks[k].pc = "notify" /\ ~tasks[k].ok /\ tasks'[k].pc = "done")
              => Report(tasks[k].id, FALSE) \in notifications' ]_vars

\* what the send call gave back to the task that waits to notify: True,
\* False, or None when the loop over the attempts ran out after a closed
\* connection
ReturnValue(t) ==
    IF t.ok THEN "True" ELSE IF t.err = "closed" THEN "None" ELSE "False"

C30_FailedLoadIsEmpty ==
    (up /\ loaded.failed)
    => /\ delayed_messages = EmptyDict
       /\ delayed_tasks = EmptyDict
       /\ tasks = << >>

\* the files referenced by the stored messages and by the creation flow
ReferencedFiles ==
    UNION { Range(delayed_messages[id].attachments) :
               id \in DOMAIN delayed_messages }
    \cup Range(flow.attachments)

\* C31: whenever the process is between two handlers, every attachment
\* file on disk is referenced by a stored message or by the creation flow
\* in progress.
C31_FilesReferenced == up => files \subseteq ReferencedFiles

\* every character of s is whitespace
Blank(s) == \A i \in DOMAIN s : s[i] \in Whitespace

\* text t is the chunks cs in their order with nothing but whitespace
\* before, between and after them
RECURSIVE Reconstructs(_, _)
Reconstructs(t, cs) ==
    IF cs = << >> THEN Blank(t)
    ELSE \E k \in 0..Len(t) :
            /\ Blank(SubSeq(t, 1, k))
            /\ k + Len(Head(cs)) <= Len(t)
            /\ SubSeq(t, k + 1, k + Len(Head(cs))) = Head(cs)
            /\ Reconstructs(SubSeq(t, k + Len(Head(cs)) + 1, Len(t)), Tail(cs))

\* C32: for a text longer than the limit, every chunk the splitter returns
\* has at most limit characters and is neither empty nor blank, and the
\* text is the chunks in their order with only whitespace dropped between
\* them.
C32_SplitReconstructs ==
    result.kind = "split"
    => /\ \A i \in DOMAIN result.parts :
             /\ Len(result.parts[i]) <= SplitLimit
             /\ ~Blank(result.parts[i])
       /\ Reconstructs(result.text, result.parts)

\* the paths of a list of file lists, in order
RECURSIVE Flatten(_)
Flatten(groups) ==
    IF groups = << >> THEN << >> ELSE Head(groups) \o Flatten(Tail(groups))

\* the sends that carried a group of files
BatchesOf(ch) == SelectSeq(ch, LAMBDA m : m.batch # 0)

\* C33: a message with n attachments the send call reports as sent has
\* reached the channel as ceil(n / limit) batches of files, none larger than
\* the limit, which together are the attachments, each once and in their
\* order, and no batch but the first carries text.
C33_BatchesOfFiles ==
    (result.kind = "send" /\ result.call.pc = "notify" /\ result.call.ok)
    => LET n == Len(result.file_paths)
           batches == BatchesOf(channel)
       IN  /\ Len(batches) = (n + FilesLimit - 1) \div FilesLimit
           /\ \A i \in DOMAIN batches : Len(batches[i].files) <= FilesLimit
           /\ Flatten([i \in DOMAIN batches |-> batches[i].files])
                 = result.file_paths
           /\ \A i \in DOMAIN batches :
                 batches[i].content # 0 => i = 1

\* C34: on_ready starts a message_scheduler task only while none was
\* started: the flag it sets is never cleared, and no step taken with the
\* flag set puts a task at the top of the scheduler, however often on_ready
\* fires.
C34_OneSchedulerTask ==
    [][/\ scheduler_running => scheduler_running'
       /\ (pc' = "start" /\ pc # "start") => ~scheduler_running]_vars

\* the task is in its loop, where a reconnect fires on_ready again
C34_Witness ==
    /\ scheduler_running
    /\ pc \in {"sleep_fire", "sleep_next", "sleep_defer", "cooldown"}

C36_FireTimeInWindow ==
    result.kind = "constructed"
    => /\ next_target # NoSec
       /\ StartTime <= next_target /\ next_target <= EndTime

\* the task has entered the send call
InSendCallOrAfter(t) == t.pc \in {"send", "pause", "retry", "notify"}

\* C37: a wait task sleeps exactly when the fire time its message has at
\* the task's first step is later than the clock, and then until that fire
\* time; it enters the send call at its first step only when the fire time
\* is due, and from its sleep only when the clock has reached the fire time
\* it went to sleep for; so nothing of a message reaches the channel before
\* the fire time its task started with.
C37_NotBeforeFireAt ==
    [][ \A k \in DOMAIN tasks :
          /\ (tasks[k].pc = "created" /\ tasks'[k].pc # "created"
                 /\ Live(tasks'[k]))
             => LET fire_at == delayed_messages[tasks[k].id].date_time
                IN  IF Before(now, fire_at)
                    THEN tasks'[k].pc = "sleep" /\ tasks'[k].wake = fire_at
                    ELSE InSendCallOrAfter(tasks'[k])
          /\ (tasks[k].pc = "sleep" /\ InSendCallOrAfter(tasks'[k]))
             => AtOrBefore(tasks[k].wake, now)
          /\ (tasks[k].pc = "sleep" /\ tasks'[k].pc = "sleep")
             => tasks'[k].wake = tasks[k].wake
          /\ (Len(channel') > Len(channel)
                 /\ channel'[Len(channel')].task = k)
             => InSendCallOrAfter(tasks[k]) ]_vars

\* a task was created for a message whose fire time has passed meanwhile:
\* its first step calls the send
C37_Witness ==
    \E k \in DOMAIN tasks :
       /\ tasks[k].pc = "created"
       /\ tasks[k].id \in DOMAIN delayed_messages
       /\ Before(delayed_messages[tasks[k].id].date_time, now)

\* C38: within one send call no text part and no batch of files reaches
\* the channel twice, also when a connection error is followed by another
\* attempt.
C38_EachPartOnce ==
    \A i, j \in DOMAIN channel :
       i < j => /\ channel[i].content # 0
                     => channel[j].content # channel[i].content
                /\ channel[i].batch # 0
                     => channel[j].batch # channel[i].batch

C40_ParsedIsFuture ==
    (result.kind = "parsed" /\ ~result.raised) => Before(now, result.at)

====
